---- MODULE Spec2Model ----
(***************************************************************************)
(* A model of the pycvoa Solution value store (problem/solution.py), its    *)
(* validation layer (control/domain.py) and its capacity checks            *)
(* (problem/ctrl/solution.py), over one Domain whose definitions have the  *)
(* structure ProblemDefinition (definition.py) builds.                      *)
(*                                                                         *)
(* A Python value is a record [kind, n]: an int, a float or a str.  A      *)
(* layer value (a dict) is a function from element names; a vector value   *)
(* (a list) is a sequence.  Every operation is an operator from the        *)
(* arguments and the store to an outcome [variables, err, ret]; its action *)
(* installs the outcome and records the call in last.                      *)
(***************************************************************************)
EXTENDS Integers, Sequences, FiniteSets, TLC

\* Largest max_size the scalar-vector of the explored domains declares.
MaxSize == 1
\* Largest length the exploration lets a stored list or dict reach, and the
\* largest max_size of the layer-vector: one more than MaxSize, so that an
\* overfull vector can be seen and a second component can follow a first.
MaxLen == MaxSize + 1
\* Largest fitness the exploration assigns: the fitnesses are 0..MaxFitness,
\* and sys.float_info.max is the one value above them all.
MaxFitness == 1

VARIABLES
    definitions,   \* Domain.__definitions of the Domain object "D"
    domains,       \* the Domain objects that exist: "D", and "E" in some runs
    domain,        \* Solution.__domain: "none" or a Domain object
    variables,     \* Solution.__variables
    fitness,       \* Solution.fitness
    other,         \* the right-hand operand of the comparisons
    problem_definition,  \* ProblemDefinition.__definitions
    caller,  \* the dict or list the caller last passed, and where the store holds that same object
    discovery_iteration,  \* self.discovery_iteration
    search,  \* the RandomSearch object and the locals of its run
    last           \* the last call: [op, var, err]

vars == <<definitions, domains, domain, variables, fitness, other, problem_definition, caller, discovery_iteration, search, last>>

(***************************************************************************)
(* Python values                                                           *)
(***************************************************************************)
PyInt(n) == [kind |-> "int", n |-> n]
PyFloat(n) == [kind |-> "float", n |-> n]
PyStr(n) == [kind |-> "str", n |-> n]

\* A dict and a list, tagged like the scalars so that type(x) can be asked.
PyDict(f) == [kind |-> "dict", n |-> f]
PyList(s) == [kind |-> "list", n |-> s]

NoErr == "none"

\* The outcome of a call that raised: nothing returned.
Raise(vs, e) == [variables |-> vs, err |-> e, ret |-> "none"]
\* The outcome of a call that returned r.
Return(vs, r) == [variables |-> vs, err |-> NoErr, ret |-> r]

\* d[k] = v on a dict (creates or replaces the key).
Put(d, k, v) == [x \in (DOMAIN d) \cup {k} |-> IF x = k THEN v ELSE d[x]]

EmptyDict == [x \in {} |-> 0]

\* list[i] with Python's index rule: i < 0 counts from the end.
PyPos(s, i) == IF i >= 0 THEN i + 1 ELSE Len(s) + i + 1
PyInRange(s, i) == PyPos(s, i) >= 1 /\ PyPos(s, i) <= Len(s)

\* list.insert(i, x): the position is clamped, never rejected.
PyInsertPos(s, i) ==
    IF i >= 0 THEN (IF i > Len(s) THEN Len(s) ELSE i)
    ELSE (IF Len(s) + i < 0 THEN 0 ELSE Len(s) + i)
PyInsert(s, i, x) ==
    SubSeq(s, 1, PyInsertPos(s, i)) \o <<x>> \o SubSeq(s, PyInsertPos(s, i) + 1, Len(s))

\* del list[i] for an index in range.
PyDelete(s, i) == SubSeq(s, 1, PyPos(s, i) - 1) \o SubSeq(s, PyPos(s, i) + 1, Len(s))

\* list[i] = x for an index in range.
PySetItem(s, i, x) == [s EXCEPT ![PyPos(s, i)] = x]

(***************************************************************************)
(* Domain definitions, in the structure of ProblemDefinition               *)
(***************************************************************************)
IntegerDef(lo, hi) == [type |-> "INTEGER", min |-> lo, max |-> hi]
RealDef(lo, hi) == [type |-> "REAL", min |-> lo, max |-> hi]
CategoricalDef(labels) == [type |-> "CATEGORICAL", categories |-> labels]
LayerDef(els) == [type |-> "LAYER", elements |-> els]
VectorDef(lo, hi, comp) ==
    [type |-> "VECTOR", min_size |-> lo, max_size |-> hi, components |-> comp]

BASIC_TYPE == {"INTEGER", "REAL", "CATEGORICAL"}

\* What a query ends with: the value it returns, or the error it raises.
DomOk(r) == [err |-> NoErr, ret |-> r]
DomErr(e) == [err |-> e, ret |-> FALSE]

(***************************************************************************)
(* definition.py: ProblemDefinition, a dict from each registered name to   *)
(* the list that defines it.  The registrations return the dict they leave. *)
(***************************************************************************)
\* register_integer_variable that keeps the definition a name already has.
register_integer_variable_KeepFirst(defs, name, min_value, max_value, step) ==
    IF name \in DOMAIN defs THEN defs
    ELSE Put(defs, name, <<"INTEGER", min_value, max_value, step>>)

register_integer_variable(defs, name, min_value, max_value, step) ==
    Put(defs, name, <<"INTEGER", min_value, max_value, step>>)

register_real_variable(defs, name, min_value, max_value, step) ==
    Put(defs, name, <<"REAL", min_value, max_value, step>>)

register_categorical_variable(defs, name, categories) ==
    Put(defs, name, <<"CATEGORICAL", categories>>)

register_layer_variable(defs, name) == Put(defs, name, <<"LAYER", EmptyDict>>)

register_vector_variable(defs, name, min_size, max_size, step_size) ==
    Put(defs, name, <<"VECTOR", min_size, max_size, step_size, EmptyDict>>)

get_variable_list(defs) == DomOk(DOMAIN defs)

\* self.__definitions[variable]
get_variable_definition(defs, variable) ==
    IF variable \notin DOMAIN defs THEN DomErr("KeyError") ELSE DomOk(defs[variable])

\* self.__definitions[variable][0]
ProblemDefinition_get_variable_type(defs, variable) ==
    IF variable \notin DOMAIN defs THEN DomErr("KeyError") ELSE DomOk(defs[variable][1])

(***************************************************************************)
(* Domain: the queries and value checks of the Domain object               *)
(***************************************************************************)

\* Scalar check: the primitive kind matches the variant, then bounds or membership.
check_scalar(def, value) ==
    CASE def.type = "INTEGER" ->
           value.kind = "int" /\ def.min <= value.n /\ value.n <= def.max
      [] def.type = "REAL" ->
           value.kind = "float" /\ def.min <= value.n /\ value.n <= def.max
      [] def.type = "CATEGORICAL" -> value \in def.categories
      [] OTHER -> FALSE

is_defined_variable(defs, variable) == variable \in DOMAIN defs

get_variable_type(defs, variable) ==
    IF ~is_defined_variable(defs, variable) THEN DomErr("DefinitionError")
    ELSE DomOk(defs[variable].type)

\* A VECTOR whose component type has been set.
are_defined_components(defs, variable) ==
    defs[variable].components.type # "UNDEFINED"

get_vector_components_type(defs, variable) ==
    IF ~is_defined_variable(defs, variable) THEN DomErr("DefinitionError")
    ELSE IF defs[variable].type # "VECTOR" THEN DomErr("DefinitionError")
    ELSE IF ~are_defined_components(defs, variable) THEN DomErr("DefinitionError")
    ELSE DomOk(defs[variable].components.type)

\* A definition as the value Python compares: a list.
PyDefinition(def) == [kind |-> "list", n |-> def]

\* x in types, and x is t, for a value x, a tuple types of type names and a
\* type name t: a list is neither.
PyTypeIn(x, types) == x.kind = "type" /\ x.n \in types
PyTypeIs(x, t) == x.kind = "type" /\ x.n = t

\* self.__definitions[vector_variable][4]: the definition of the components.
get_vector_component_definition(defs, vector_variable) ==
    IF vector_variable \notin DOMAIN defs THEN DomErr("KeyError")
    ELSE IF defs[vector_variable].type # "VECTOR" THEN DomErr("IndexError")
    ELSE DomOk(PyDefinition(defs[vector_variable].components))

\* element is what the caller passed: an element name, or something else.
is_defined_element(defs, layer_variable, element) ==
    IF ~is_defined_variable(defs, layer_variable) THEN DomErr("DefinitionError")
    ELSE IF defs[layer_variable].type # "LAYER" THEN DomErr("DefinitionError")
    ELSE DomOk(element \in DOMAIN defs[layer_variable].elements)

check_basic(defs, variable, value) ==
    IF ~is_defined_variable(defs, variable) THEN DomErr("DefinitionError")
    ELSE IF defs[variable].type \notin BASIC_TYPE THEN DomErr("DefinitionError")
    ELSE DomOk(check_scalar(defs[variable], value))

check_element(defs, layer_variable, element, value) ==
    IF ~is_defined_variable(defs, layer_variable) THEN DomErr("DefinitionError")
    ELSE IF defs[layer_variable].type # "LAYER" THEN DomErr("DefinitionError")
    ELSE IF element \notin DOMAIN defs[layer_variable].elements
         THEN DomErr("DefinitionError")
    ELSE DomOk(check_scalar(defs[layer_variable].elements[element], value))

check_vector_basic_value(defs, vector_variable, value) ==
    LET t == get_vector_components_type(defs, vector_variable) IN
    IF t.err # NoErr THEN t
    ELSE IF t.ret \notin BASIC_TYPE THEN DomErr("DefinitionError")
    ELSE DomOk(check_scalar(defs[vector_variable].components, value))

check_vector_layer_element_value(defs, vector_variable, element, value) ==
    LET t == get_vector_components_type(defs, vector_variable) IN
    IF t.err # NoErr THEN t
    ELSE IF t.ret # "LAYER" THEN DomErr("DefinitionError")
    ELSE IF element \notin DOMAIN defs[vector_variable].components.elements
         THEN DomErr("DefinitionError")
    ELSE DomOk(check_scalar(defs[vector_variable].components.elements[element], value))

\* The size window of the registry: min_size <= len(values) <= max_size.
check_vector_values_size(defs, vector_variable, values) ==
    LET t == get_vector_components_type(defs, vector_variable) IN
    IF t.err # NoErr THEN t
    ELSE DomOk(defs[vector_variable].min_size <= Len(values)
               /\ Len(values) <= defs[vector_variable].max_size)

check_vector_basic_values(defs, vector_variable, values) ==
    LET s == check_vector_values_size(defs, vector_variable, values) IN
    IF s.err # NoErr THEN s
    ELSE IF defs[vector_variable].components.type \notin BASIC_TYPE
         THEN DomErr("DefinitionError")
    ELSE DomOk(s.ret /\ \A i \in 1..Len(values) :
                 check_scalar(defs[vector_variable].components, values[i]))

\* Remaining slots of a vector: max_size - current_length.
get_remaining_available_basic_components(defs, vector_variable, size) ==
    LET t == get_vector_components_type(defs, vector_variable) IN
    IF t.err # NoErr THEN t
    ELSE DomOk(defs[vector_variable].max_size - size)

get_remaining_available_complete_components(defs, vector_variable, size) ==
    LET t == get_vector_components_type(defs, vector_variable) IN
    IF t.err # NoErr THEN t
    ELSE DomOk(defs[vector_variable].max_size - size)

\* Remaining slots accounting for layer completeness: none while the last
\* component (layer, a dict) lacks a declared element.
get_remaining_available_layer_components(defs, vector_variable, size, layer) ==
    LET t == get_vector_components_type(defs, vector_variable) IN
    IF t.err # NoErr THEN t
    ELSE IF t.ret # "LAYER" THEN DomErr("DefinitionError")
    ELSE IF DOMAIN layer.n # DOMAIN defs[vector_variable].components.elements
         THEN DomOk(0)
    ELSE DomOk(defs[vector_variable].max_size - size)

(***************************************************************************)
(* control/domain.py: the checks the Solution calls before it writes.      *)
(* A domain argument is "none" (None) or a Domain; a check yields the error *)
(* it raises, or NoErr.                                                    *)
(***************************************************************************)
\* A second Domain object "E": it declares I alone, with other bounds.
EDefinitions == [I |-> IntegerDef(2, 3)]

\* The definitions a Domain object holds.
DomainDefs(d) == IF d = "E" THEN EDefinitions ELSE definitions

\* get_valid_domain consulting the Solution's own domain first.
get_valid_domain_InternalFirst(external_domain, internal_domain) ==
    IF internal_domain # "none" THEN DomOk(internal_domain)
    ELSE IF external_domain # "none" THEN DomOk(external_domain)
    ELSE DomErr("DomainError")

get_valid_domain(external_domain, internal_domain) ==
    IF external_domain # "none" THEN DomOk(external_domain)
    ELSE IF internal_domain # "none" THEN DomOk(internal_domain)
    ELSE DomErr("DomainError")

\* "if not <check>: raise e", where the check itself may raise.
RaiseUnless(r, e) == IF r.err # NoErr THEN r.err ELSE IF ~r.ret THEN e ELSE NoErr

Min(S) == CHOOSE x \in S : \A y \in S : x <= y

\* A loop over items that raises at the first item whose check fails.
FirstError(errs) ==
    LET bad == {i \in 1..Len(errs) : errs[i] # NoErr} IN
    IF bad = {} THEN NoErr ELSE errs[Min(bad)]

check_basic_value(check_basic_variable, value, external_domain, internal_domain) ==
    LET vd == get_valid_domain(external_domain, internal_domain) IN
    IF vd.err # NoErr THEN vd.err
    ELSE RaiseUnless(check_basic(DomainDefs(vd.ret), check_basic_variable, value),
                     "DomainError")

\* layer_value is the dict as its items in order: a sequence of [el, val].
check_layer_value(layer_variable, layer_value, external_domain, internal_domain) ==
    LET vd == get_valid_domain(external_domain, internal_domain) IN
    IF vd.err # NoErr THEN vd.err
    ELSE FirstError([i \in 1..Len(layer_value) |->
            RaiseUnless(check_element(DomainDefs(vd.ret), layer_variable,
                                      layer_value[i].el, layer_value[i].val),
                        "DomainError")])

check_layer_element_value(layer_variable, element, value, external_domain, internal_domain) ==
    LET vd == get_valid_domain(external_domain, internal_domain) IN
    IF vd.err # NoErr THEN vd.err
    ELSE RaiseUnless(check_element(DomainDefs(vd.ret), layer_variable, element, value),
                     "DomainError")

check_basic_vector_values(check_basic_vector_variable, value_list, external_domain, internal_domain) ==
    LET vd == get_valid_domain(external_domain, internal_domain) IN
    IF vd.err # NoErr THEN vd.err
    ELSE RaiseUnless(check_vector_basic_values(DomainDefs(vd.ret),
                         check_basic_vector_variable, value_list), "DomainError")

check_basic_vector_value(check_basic_vector_variable, value, external_domain, internal_domain) ==
    LET vd == get_valid_domain(external_domain, internal_domain) IN
    IF vd.err # NoErr THEN vd
    ELSE LET e == RaiseUnless(check_vector_basic_value(DomainDefs(vd.ret),
                                  check_basic_vector_variable, value), "DomainError")
         IN IF e # NoErr THEN DomErr(e) ELSE vd

\* The elements of one layer, in order, against the layer-vector's definition.
LayerItemsError(defs, layer_vector_variable, layer_values) ==
    FirstError([i \in 1..Len(layer_values) |->
        RaiseUnless(check_vector_layer_element_value(defs, layer_vector_variable,
                        layer_values[i].el, layer_values[i].val), "DomainError")])

\* __list_size, then every element of every layer of the list ("assert
\* type(layer) is SolLayer" holds of the dicts a caller passes).
check_layer_vector_values(layer_vector_variable, value_list, external_domain, internal_domain) ==
    LET vd == get_valid_domain(external_domain, internal_domain) IN
    IF vd.err # NoErr THEN vd.err
    ELSE LET size == RaiseUnless(check_vector_values_size(DomainDefs(vd.ret),
                                     layer_vector_variable, value_list), "DomainError")
         IN IF size # NoErr THEN size
            ELSE FirstError([i \in 1..Len(value_list) |->
                    LayerItemsError(DomainDefs(vd.ret), layer_vector_variable,
                                    value_list[i])])

check_layer_vector_component(layer_vector_variable, layer_values, external_domain, internal_domain) ==
    LET vd == get_valid_domain(external_domain, internal_domain) IN
    IF vd.err # NoErr THEN vd
    ELSE LET e == LayerItemsError(DomainDefs(vd.ret), layer_vector_variable,
                                  layer_values)
         IN IF e # NoErr THEN DomErr(e) ELSE vd

check_layer_vector_element(layer_vector_variable, element, value, external_domain, internal_domain) ==
    LET vd == get_valid_domain(external_domain, internal_domain) IN
    IF vd.err # NoErr THEN vd
    ELSE LET e == RaiseUnless(check_vector_layer_element_value(DomainDefs(vd.ret),
                                  layer_vector_variable, element, value), "ValueError")
         IN IF e # NoErr THEN DomErr(e) ELSE vd

\* The Solution's store dict itself, where a caller passes it in the place of
\* an element name: it is no str and names no element.
VariablesObject == "<self.__variables>"

\* cmn.check_item_type(BASIC, t): t is one of the three scalar types.
check_item_type_BASIC(t) == t \in BASIC_TYPE

basic_variable(check_basic_variable, external_domain, internal_domain) ==
    LET vd == get_valid_domain(external_domain, internal_domain) IN
    IF vd.err # NoErr THEN vd
    ELSE LET t == get_variable_type(DomainDefs(vd.ret), check_basic_variable) IN
         IF t.err # NoErr THEN t
         ELSE IF ~check_item_type_BASIC(t.ret) THEN DomErr("DefinitionError")
         ELSE vd

\* element is whatever the caller passed in that position.
layer_variable_element(check_layer_variable, element, external_domain, internal_domain) ==
    LET vd == get_valid_domain(external_domain, internal_domain) IN
    IF vd.err # NoErr THEN vd
    ELSE LET t == get_variable_type(DomainDefs(vd.ret), check_layer_variable) IN
         IF t.err # NoErr THEN t
         ELSE IF t.ret # "LAYER" THEN DomErr("DefinitionError")
         ELSE LET d == is_defined_element(DomainDefs(vd.ret), check_layer_variable,
                                          element)
              IN IF d.err # NoErr THEN d
                 ELSE IF d.ret = FALSE
                      THEN \* the message is built by str + element
                           IF element = VariablesObject THEN DomErr("TypeError")
                           ELSE DomErr("DefinitionError")
                 ELSE vd

\* __check_component_type: the error it raises, or NoErr.
check_vector_component_type(check_vector_variable, check_type, d) ==
    LET t == get_vector_components_type(DomainDefs(d), check_vector_variable) IN
    IF t.err # NoErr THEN t.err
    ELSE IF check_type = "BASIC"
         THEN (IF t.ret \notin BASIC_TYPE THEN "ValueError" ELSE NoErr)
    ELSE IF t.ret # check_type THEN "ValueError" ELSE NoErr

basic_vector_variable(check_vector_variable, external_domain, internal_domain) ==
    LET vd == get_valid_domain(external_domain, internal_domain) IN
    IF vd.err # NoErr THEN vd
    ELSE LET e == check_vector_component_type(check_vector_variable, "BASIC", vd.ret)
         IN IF e # NoErr THEN DomErr(e) ELSE vd

layer_vector_variable(check_vector_variable, external_domain, internal_domain) ==
    LET vd == get_valid_domain(external_domain, internal_domain) IN
    IF vd.err # NoErr THEN vd
    ELSE LET e == check_vector_component_type(check_vector_variable, "LAYER", vd.ret)
         IN IF e # NoErr THEN DomErr(e) ELSE vd

\* ctrl_dom.layer_vector, the check get_layer_component_value calls: the
\* variable is a vector whose components are layers.
layer_vector(check_vector_variable, external_domain, internal_domain) ==
    layer_vector_variable(check_vector_variable, external_domain, internal_domain)

\* control/domain.py is_defined_variable: the valid domain, when it declares
\* the variable.
ctrl_dom_is_defined_variable(variable, external_domain, internal_domain) ==
    LET vd == get_valid_domain(external_domain, internal_domain) IN
    IF vd.err # NoErr THEN vd
    ELSE IF is_defined_variable(DomainDefs(vd.ret), variable) # TRUE
         THEN DomErr("DomainError")
    ELSE vd

\* The error is_defined_as_layer_vector_variable raises, or NoErr. Its last
\* test is "not <components type> is not LAYER", that is, not (t is not LAYER).
is_defined_as_layer_vector_variable(variable, external_domain, internal_domain) ==
    LET vd == ctrl_dom_is_defined_variable(variable, external_domain, internal_domain)
    IN IF vd.err # NoErr THEN vd.err
       ELSE LET t == get_variable_type(DomainDefs(vd.ret), variable)
                c == get_vector_components_type(DomainDefs(vd.ret), variable)
            IN IF t.err # NoErr THEN t.err
               ELSE IF t.ret # "VECTOR" THEN "DomainError"
               ELSE IF c.err # NoErr THEN c.err
               ELSE IF ~(c.ret # "LAYER") THEN "DomainError"
               ELSE NoErr

(***************************************************************************)
(* problem/ctrl/solution.py: what is assigned, and the capacity checks     *)
(***************************************************************************)
\* len(x): of a list or a dict; a scalar has none.
PyLen(x) ==
    CASE x.kind = "list" -> DomOk(Len(x.n))
      [] x.kind = "dict" -> DomOk(Cardinality(DOMAIN x.n))
      [] OTHER -> DomErr("TypeError")

\* len(solution_structure.get(v)): get gives None for a missing key.
LenOfGet(vs, v) == IF v \in DOMAIN vs THEN PyLen(vs[v]) ELSE DomErr("TypeError")

is_assigned_variable(variable, solution_structure) ==
    IF variable \notin DOMAIN solution_structure THEN "SolutionError" ELSE NoErr

is_assigned_component(vector_variable, index, solution_structure) ==
    LET l == LenOfGet(solution_structure, vector_variable) IN
    IF index < 0 THEN "SolutionError"
    ELSE IF l.err # NoErr THEN l.err
    ELSE IF index >= l.ret THEN "SolutionError"
    ELSE NoErr

vector_insertion_available(vector_variable, d, solution_structure) ==
    LET l == IF vector_variable \in DOMAIN solution_structure
             THEN PyLen(solution_structure[vector_variable]) ELSE DomOk(0)
    IN IF l.err # NoErr THEN l.err
       ELSE LET r == get_remaining_available_basic_components(DomainDefs(d),
                         vector_variable, l.ret)
            IN IF r.err # NoErr THEN r.err
               ELSE IF r.ret = 0 THEN "SolutionError" ELSE NoErr

vector_adding_available(vector_variable, remaining) ==
    IF remaining = 0 THEN "SolutionError" ELSE NoErr

\* The body is "pass".
vector_element_adding_available(vector_variable, solution_structure, d) == NoErr

assigned_vector_removal_available(vector_variable, solution_structure, d) ==
    LET a == is_assigned_variable(vector_variable, solution_structure) IN
    IF a # NoErr THEN a
    ELSE LET l == LenOfGet(solution_structure, vector_variable) IN
         IF l.err # NoErr THEN l.err
         ELSE LET r == get_remaining_available_basic_components(DomainDefs(d),
                           vector_variable, l.ret)
              IN IF r.err # NoErr THEN r.err
                 ELSE IF r.ret < 0 THEN "SolutionError" ELSE NoErr

is_assigned_layer_element(layer_variable, element, solution_structure) ==
    LET a == is_assigned_variable(layer_variable, solution_structure) IN
    IF a # NoErr THEN a
    ELSE IF solution_structure[layer_variable].kind # "dict" THEN "AttributeError"
    ELSE IF element \notin DOMAIN solution_structure[layer_variable].n
         THEN "SolutionError"
    ELSE NoErr

\* The str key under which a dict holds the int key i.
IntKey(i) == ToString(i)

\* x[index] on a stored object: a list takes Python's index rule, a dict
\* looks the key up.
PyGetItem(x, index) ==
    CASE x.kind = "list" ->
           IF PyInRange(x.n, index) THEN DomOk(x.n[PyPos(x.n, index)])
           ELSE DomErr("IndexError")
      [] x.kind = "dict" ->
           IF IntKey(index) \in DOMAIN x.n THEN DomOk(x.n[IntKey(index)])
           ELSE DomErr("KeyError")
      [] OTHER -> DomErr("TypeError")

\* solution_structure.get(v)[index].keys(): get gives None for a missing key.
is_assigned_component_element(vector_variable, index, element, solution_structure) ==
    IF vector_variable \notin DOMAIN solution_structure THEN "TypeError"
    ELSE LET c == PyGetItem(solution_structure[vector_variable], index) IN
         IF c.err # NoErr THEN c.err
         ELSE IF c.ret.kind # "dict" THEN "AttributeError"
         ELSE IF element \notin DOMAIN c.ret.n THEN "SolutionError"
         ELSE NoErr

(***************************************************************************)
(* problem/solution.py: the Solution's operations.  vs is __variables, dom *)
(* is __domain, domain_arg the call's domain parameter.                    *)
(***************************************************************************)
\* copy.deepcopy(x): an equal value that shares nothing with x.
deepcopy(x) == x

\* The dict a caller builds from items [el, val] (elements distinct).
ToDict(items) ==
    PyDict([e \in {items[i].el : i \in 1..Len(items)} |->
              (CHOOSE it \in {items[i] : i \in 1..Len(items)} : it.el = e).val])

\* set_basic without its write: the value is checked and not stored.
set_basic_Unstored(vs, dom, basic_var, value, domain_arg) ==
    LET e == check_basic_value(basic_var, value, domain_arg, dom) IN
    IF e # NoErr THEN Raise(vs, e) ELSE Return(vs, "None")

set_basic(vs, dom, basic_var, value, domain_arg) ==
    LET e == check_basic_value(basic_var, value, domain_arg, dom) IN
    IF e # NoErr THEN Raise(vs, e)
    ELSE Return(Put(vs, basic_var, deepcopy(value)), "None")

set_layer(vs, dom, layer_var, layer_value, domain_arg) ==
    LET e == check_layer_value(layer_var, layer_value, domain_arg, dom) IN
    IF e # NoErr THEN Raise(vs, e)
    ELSE Return(Put(vs, layer_var, ToDict(layer_value)), "None")

set_element(vs, dom, layer_var, element, value, domain_arg) ==
    LET e == check_layer_element_value(layer_var, element, value, domain_arg, dom) IN
    IF e # NoErr THEN Raise(vs, e)
    ELSE IF layer_var \notin DOMAIN vs
         THEN Return(Put(vs, layer_var, PyDict(Put(EmptyDict, element, value))), "None")
    ELSE IF vs[layer_var].kind # "dict" THEN Raise(vs, "AssertionError")
    ELSE Return(Put(vs, layer_var, PyDict(Put(vs[layer_var].n, element, value))),
                "None")

set_basic_vector(vs, dom, vector_var, values, domain_arg) ==
    LET e == check_basic_vector_values(vector_var, values, domain_arg, dom) IN
    IF e # NoErr THEN Raise(vs, e)
    ELSE Return(Put(vs, vector_var, PyList(deepcopy(values))), "None")

\* AppendOrInsert without the final  r -= 1.
AppendOrInsert_Undecremented(vs, var, has_index, index, v, r) ==
    IF vs[var].kind # "list" THEN Raise(vs, "AttributeError")
    ELSE IF ~has_index
         THEN Return(Put(vs, var, PyList(Append(vs[var].n, v))), r)
    ELSE Return(Put(vs, var, PyList(PyInsert(vs[var].n, index, v))), r)

\* x.append(v) / x.insert(index, v) on the stored object x: a list has them.
AppendOrInsert(vs, var, has_index, index, v, r) ==
    IF vs[var].kind # "list" THEN Raise(vs, "AttributeError")
    ELSE IF ~has_index
         THEN Return(Put(vs, var, PyList(Append(vs[var].n, v))), r - 1)
    ELSE Return(Put(vs, var, PyList(PyInsert(vs[var].n, index, v))), r - 1)

put_basic(vs, basic_vector_var, value, external_domain, internal_domain, has_index, index) ==
    LET vd == check_basic_vector_value(basic_vector_var, value, external_domain,
                                       internal_domain)
    IN
    IF vd.err # NoErr THEN Raise(vs, vd.err)
    ELSE IF basic_vector_var \notin DOMAIN vs
    THEN LET vs1 == Put(vs, basic_vector_var, PyList(<<value>>))
             r == get_remaining_available_complete_components(DomainDefs(vd.ret),
                      basic_vector_var, 1)
         IN IF r.err # NoErr THEN Raise(vs1, r.err) ELSE Return(vs1, r.ret)
    ELSE LET e1 == vector_insertion_available(basic_vector_var, vd.ret, vs)
             l == PyLen(vs[basic_vector_var])
             r == get_remaining_available_complete_components(DomainDefs(vd.ret),
                      basic_vector_var, l.ret)
         IN IF e1 # NoErr THEN Raise(vs, e1)
            ELSE IF l.err # NoErr THEN Raise(vs, l.err)
            ELSE IF r.err # NoErr THEN Raise(vs, r.err)
            ELSE IF vector_adding_available(basic_vector_var, r.ret) # NoErr
                 THEN Raise(vs, vector_adding_available(basic_vector_var, r.ret))
            ELSE AppendOrInsert(vs, basic_vector_var, has_index, index, value, r.ret)

add_basic_component(vs, dom, basic_vector_var, value, domain_arg) ==
    put_basic(vs, basic_vector_var, value, domain_arg, dom, FALSE, 0)

insert_basic_component(vs, dom, basic_vector_var, index, value, domain_arg) ==
    put_basic(vs, basic_vector_var, value, domain_arg, dom, TRUE, index)

\* x[index] = v after is_assigned_component: on a list, or on a dict (a new key).
SetItem(vs, var, index, v) ==
    IF vs[var].kind = "list"
    THEN Return(Put(vs, var, PyList(PySetItem(vs[var].n, index, v))), "None")
    ELSE Return(Put(vs, var, PyDict(Put(vs[var].n, IntKey(index), v))), "None")

set_basic_component(vs, dom, basic_vector_var, index, value, domain_arg) ==
    LET vd == check_basic_vector_value(basic_vector_var, value, domain_arg, dom) IN
    IF vd.err # NoErr THEN Raise(vs, vd.err)
    ELSE IF basic_vector_var \notin DOMAIN vs
         THEN Return(Put(vs, basic_vector_var, PyList(<<value>>)), "None")
    ELSE LET a == is_assigned_component(basic_vector_var, index, vs) IN
         IF a # NoErr THEN Raise(vs, a)
         ELSE SetItem(vs, basic_vector_var, index, value)

set_layer_vector(vs, dom, layer_vector_var, values, domain_arg) ==
    LET e == check_layer_vector_values(layer_vector_var, values, domain_arg, dom) IN
    IF e # NoErr THEN Raise(vs, e)
    ELSE Return(Put(vs, layer_vector_var,
                    PyList([i \in 1..Len(values) |-> deepcopy(ToDict(values[i]))])),
                "None")

put_layer(vs, layer_vector_var, layer_values, external_domain, internal_domain, has_index, index) ==
    LET cd == check_layer_vector_component(layer_vector_var, layer_values,
                                           external_domain, internal_domain)
    IN
    IF cd.err # NoErr THEN Raise(vs, cd.err)
    ELSE IF layer_vector_var \notin DOMAIN vs
    THEN LET vs1 == Put(vs, layer_vector_var,
                        PyList(<<deepcopy(ToDict(layer_values))>>))
             r == get_remaining_available_complete_components(DomainDefs(cd.ret),
                      layer_vector_var, 1)
         IN IF r.err # NoErr THEN Raise(vs1, r.err) ELSE Return(vs1, r.ret)
    ELSE LET l == PyLen(vs[layer_vector_var])
             r == get_remaining_available_complete_components(DomainDefs(cd.ret),
                      layer_vector_var, l.ret)
         IN IF l.err # NoErr THEN Raise(vs, l.err)
            ELSE IF r.err # NoErr THEN Raise(vs, r.err)
            ELSE IF vector_adding_available(layer_vector_var, r.ret) # NoErr
                 THEN Raise(vs, vector_adding_available(layer_vector_var, r.ret))
            ELSE AppendOrInsert(vs, layer_vector_var, has_index, index,
                                ToDict(layer_values), r.ret)

add_layer_component(vs, dom, layer_vector_var, layer_values, domain_arg) ==
    put_layer(vs, layer_vector_var, layer_values, domain_arg, dom, FALSE, 0)

insert_layer_component(vs, dom, layer_vector_var, index, layer_values, domain_arg) ==
    put_layer(vs, layer_vector_var, layer_values, domain_arg, dom, TRUE, index)

set_layer_component(vs, dom, layer_vector_var, index, layer_values, domain_arg) ==
    LET cd == check_layer_vector_component(layer_vector_var, layer_values,
                                           domain_arg, dom)
    IN
    IF cd.err # NoErr THEN Raise(vs, cd.err)
    ELSE IF layer_vector_var \notin DOMAIN vs
         THEN Return(Put(vs, layer_vector_var,
                         PyList(<<deepcopy(ToDict(layer_values))>>)), "None")
    ELSE LET a == is_assigned_component(layer_vector_var, index, vs) IN
         IF a # NoErr THEN Raise(vs, a)
         ELSE SetItem(vs, layer_vector_var, index, deepcopy(ToDict(layer_values)))

\* The else branch of __put_element: x = variables[v] is assigned.
PutElementAssigned(vs, d, var, element, value, has_index, index) ==
    LET x == vs[var]
        valid_index == IF has_index THEN index ELSE -1
    IN
    IF x.kind = "dict" THEN Raise(vs, "KeyError")
    ELSE IF x.kind # "list" THEN Raise(vs, "TypeError")
    ELSE IF ~PyInRange(x.n, valid_index) THEN Raise(vs, "IndexError")
    ELSE LET comp == x.n[PyPos(x.n, valid_index)]
             new == PyDict(Put(EmptyDict, element, value))
             x1 == IF element \in DOMAIN comp.n
                   THEN IF ~has_index THEN Append(x.n, new)
                        ELSE PyInsert(x.n, index, new)
                   ELSE PySetItem(x.n, valid_index,
                                  PyDict(Put(comp.n, element, value)))
             vs1 == Put(vs, var, PyList(x1))
             r == get_remaining_available_layer_components(DomainDefs(d), var,
                      Len(x1), x1[PyPos(x1, valid_index)])
         IN IF r.err # NoErr THEN Raise(vs1, r.err) ELSE Return(vs1, r.ret)

put_element(vs, layer_vector_var, element, value, external_domain, internal_domain, has_index, index) ==
    LET vd == check_layer_vector_element(layer_vector_var, element, value,
                                         external_domain, internal_domain)
    IN
    IF vd.err # NoErr THEN Raise(vs, vd.err)
    ELSE IF layer_vector_var \notin DOMAIN vs
         THEN \* the return reads valid_index, which this branch never bound
              Raise(Put(vs, layer_vector_var,
                        PyList(<<PyDict(Put(EmptyDict, element, value))>>)),
                    "UnboundLocalError")
    ELSE PutElementAssigned(vs, vd.ret, layer_vector_var, element, value,
                            has_index, index)

add_element_to_layer_component(vs, dom, layer_vector_var, element, value, domain_arg) ==
    put_element(vs, layer_vector_var, element, value, domain_arg, dom, FALSE, 0)

insert_element_to_layer_component(vs, dom, layer_vector_var, index, element, value, domain_arg) ==
    put_element(vs, layer_vector_var, element, value, domain_arg, dom, TRUE, index)

set_element_of_layer_component(vs, dom, layer_vector_var, index, element, value, domain_arg) ==
    LET vd == check_layer_vector_element(layer_vector_var, element, value,
                                         domain_arg, dom)
    IN
    IF vd.err # NoErr THEN Raise(vs, vd.err)
    ELSE IF layer_vector_var \notin DOMAIN vs
         THEN Return(Put(vs, layer_vector_var,
                         PyList(<<PyDict(Put(EmptyDict, element, value))>>)), "None")
    ELSE LET a == is_assigned_component(layer_vector_var, index, vs) IN
         IF a # NoErr THEN Raise(vs, a)
         ELSE LET x == vs[layer_vector_var] IN
              Return(Put(vs, layer_vector_var,
                         PyList(PySetItem(x.n, index,
                             PyDict(Put(x.n[PyPos(x.n, index)].n, element, value))))),
                     "None")

\* x.pop() on the stored object x.
PyPop(vs, var) ==
    IF vs[var].kind = "list"
    THEN IF Len(vs[var].n) = 0 THEN Raise(vs, "IndexError")
         ELSE Return(Put(vs, var, PyList(SubSeq(vs[var].n, 1, Len(vs[var].n) - 1))),
                     "None")
    ELSE IF vs[var].kind = "dict" THEN Raise(vs, "TypeError")
    ELSE Raise(vs, "AttributeError")

remove_component(vs, dom, vector_var, domain_arg) ==
    LET vd == get_valid_domain(domain_arg, dom) IN
    IF vd.err # NoErr THEN Raise(vs, vd.err)
    ELSE IF is_assigned_variable(vector_var, vs) # NoErr
         THEN Raise(vs, is_assigned_variable(vector_var, vs))
    ELSE LET r == assigned_vector_removal_available(vector_var, vs, vd.ret) IN
         IF r # NoErr THEN Raise(vs, r)
         ELSE PyPop(vs, vector_var)

\* del x[index] on the stored object x, index in 0..len(x)-1.
PyDel(vs, var, index) ==
    IF vs[var].kind = "list"
    THEN Return(Put(vs, var, PyList(PyDelete(vs[var].n, index))), "None")
    ELSE Raise(vs, "KeyError")

delete_component(vs, dom, vector_var, index, domain_arg) ==
    LET vd == get_valid_domain(domain_arg, dom) IN
    IF vd.err # NoErr THEN Raise(vs, vd.err)
    ELSE IF is_assigned_variable(vector_var, vs) # NoErr
         THEN Raise(vs, is_assigned_variable(vector_var, vs))
    ELSE LET r == assigned_vector_removal_available(vector_var, vs, vd.ret)
             a == is_assigned_component(vector_var, index, vs)
         IN IF r # NoErr THEN Raise(vs, r)
            ELSE IF a # NoErr THEN Raise(vs, a)
            ELSE PyDel(vs, vector_var, index)

\* get_basic_value with its two checks in the other order.
get_basic_value_AssignedFirst(vs, dom, basic_var, domain_arg) ==
    LET vd == basic_variable(basic_var, domain_arg, dom) IN
    IF is_assigned_variable(basic_var, vs) # NoErr
    THEN Raise(vs, is_assigned_variable(basic_var, vs))
    ELSE IF vd.err # NoErr THEN Raise(vs, vd.err)
    ELSE Return(vs, vs[basic_var])

get_basic_value(vs, dom, basic_var, domain_arg) ==
    LET vd == basic_variable(basic_var, domain_arg, dom) IN
    IF vd.err # NoErr THEN Raise(vs, vd.err)
    ELSE IF is_assigned_variable(basic_var, vs) # NoErr
         THEN Raise(vs, is_assigned_variable(basic_var, vs))
    ELSE Return(vs, vs[basic_var])

\* The call passes self.__variables where layer_variable_element takes the element.
get_element_value(vs, dom, layer_var, element, domain_arg) ==
    LET vd == layer_variable_element(layer_var, VariablesObject, domain_arg, dom) IN
    IF vd.err # NoErr THEN Raise(vs, vd.err)
    ELSE IF is_assigned_layer_element(layer_var, element, vs) # NoErr
         THEN Raise(vs, is_assigned_layer_element(layer_var, element, vs))
    ELSE Return(vs, vs[layer_var].n[element])

get_basic_component_value(vs, dom, basic_vector_var, index, domain_arg) ==
    LET vd == basic_vector_variable(basic_vector_var, domain_arg, dom)
        a == is_assigned_component(basic_vector_var, index, vs)
    IN
    IF vd.err # NoErr THEN Raise(vs, vd.err)
    ELSE IF a # NoErr THEN Raise(vs, a)
    ELSE LET r == PyGetItem(vs[basic_vector_var], index) IN
         IF r.err # NoErr THEN Raise(vs, r.err) ELSE Return(vs, r.ret)

get_layer_component_value(vs, dom, layer_vector_var, index, element, domain_arg) ==
    LET vd == layer_vector(layer_vector_var, domain_arg, dom)
        a == is_assigned_component_element(layer_vector_var, index, element, vs)
    IN
    IF vd.err # NoErr THEN Raise(vs, vd.err)
    ELSE IF a # NoErr THEN Raise(vs, a)
    ELSE Return(vs, PyGetItem(vs[layer_vector_var], index).ret.n[element])

\* index and element are read only where has_index and has_element say the
\* caller passed them; otherwise they are None.
set_value(vs, dom, variable, value, has_index, index, has_element, element, domain_arg) ==
    LET current_domain == get_valid_domain(domain_arg, dom) IN
    IF current_domain.err # NoErr THEN Raise(vs, current_domain.err)
    ELSE LET d == current_domain.ret
             var_type == get_variable_type(DomainDefs(d), variable)
             vector_definition == get_vector_component_definition(DomainDefs(d), variable)
         IN
         IF var_type.err # NoErr THEN Raise(vs, var_type.err)
         ELSE IF var_type.ret \in BASIC_TYPE
         THEN IF has_index \/ has_element THEN Raise(vs, "AssertionError")
              ELSE set_basic(vs, dom, variable, value, d)
         ELSE IF var_type.ret = "LAYER"
         THEN IF has_index \/ ~has_element THEN Raise(vs, "AssertionError")
              ELSE set_element(vs, dom, variable, element, value, d)
         ELSE IF var_type.ret = "VECTOR"
         THEN IF ~has_index THEN Raise(vs, "AssertionError")
              ELSE IF vector_definition.err # NoErr THEN Raise(vs, vector_definition.err)
              ELSE IF PyTypeIn(vector_definition.ret, BASIC_TYPE)
              THEN IF has_element THEN Raise(vs, "AssertionError")
                   ELSE set_basic_component(vs, dom, variable, index, value, d)
              ELSE IF PyTypeIs(vector_definition.ret, "LAYER")
              THEN IF ~has_element THEN Raise(vs, "AssertionError")
                   ELSE set_element_of_layer_component(vs, dom, variable, index, element, value, d)
              ELSE Return(vs, "None")
         ELSE Return(vs, "None")

get_value(vs, dom, variable, has_index, index, has_element, element, domain_arg) ==
    LET current_domain == get_valid_domain(domain_arg, dom) IN
    IF current_domain.err # NoErr THEN Raise(vs, current_domain.err)
    ELSE LET d == current_domain.ret
             var_type == get_variable_type(DomainDefs(d), variable)
             vector_definition == get_vector_component_definition(DomainDefs(d), variable)
         IN
         IF var_type.err # NoErr THEN Raise(vs, var_type.err)
         ELSE IF var_type.ret \in BASIC_TYPE
         THEN IF has_index \/ has_element THEN Raise(vs, "AssertionError")
              ELSE get_basic_value(vs, dom, variable, d)
         ELSE IF var_type.ret = "LAYER"
         THEN IF has_index \/ ~has_element THEN Raise(vs, "AssertionError")
              ELSE get_element_value(vs, dom, variable, element, d)
         ELSE IF var_type.ret = "VECTOR"
         THEN IF ~has_index THEN Raise(vs, "AssertionError")
              ELSE IF vector_definition.err # NoErr THEN Raise(vs, vector_definition.err)
              ELSE IF PyTypeIn(vector_definition.ret, BASIC_TYPE)
              THEN IF has_element THEN Raise(vs, "AssertionError")
                   ELSE get_basic_component_value(vs, dom, variable, index, d)
              ELSE IF PyTypeIs(vector_definition.ret, "LAYER")
              THEN IF ~has_element THEN Raise(vs, "AssertionError")
                   ELSE get_layer_component_value(vs, dom, variable, index, element, d)
              ELSE Return(vs, "None")
         ELSE Return(vs, "None")

\* No dict or list of the caller is followed.
NoCaller == [held |-> FALSE, object |-> PyDict(EmptyDict), shared |-> {}]

\* Where a call leaves its argument object itself in the store, not a copy of
\* it: [var, pos] is the component at position pos of var, or var's whole
\* value when pos is 0.
StoredAt(var, pos) == [var |-> var, pos |-> pos]

\* set_layer assigns layer_value itself.
set_layer_shares(out, layer_var) ==
    IF out.err = NoErr THEN {StoredAt(layer_var, 0)} ELSE {}

\* __put_layer inserts layer_values itself when it is given an index for an
\* assigned vector; it creates and appends with a deepcopy.
put_layer_shares(vs, out, layer_vector_var, has_index, index) ==
    IF out.err = NoErr /\ layer_vector_var \in DOMAIN vs /\ has_index
    THEN {StoredAt(layer_vector_var, PyInsertPos(vs[layer_vector_var].n, index) + 1)}
    ELSE {}

\* The store once the object held at the places in shared has become object.
WriteShared(vs, shared, object) ==
    [v \in DOMAIN vs |->
        IF StoredAt(v, 0) \in shared THEN object
        ELSE IF \E p \in shared : p.var = v
        THEN PyList([i \in 1..Len(vs[v].n) |-> IF StoredAt(v, i) \in shared THEN object ELSE vs[v].n[i]])
        ELSE vs[v]]

\* Python's == on two stored values: an int and a float compare by number,
\* two dicts and two lists entry by entry.
RECURSIVE PyEqual(_, _)
PyEqual(x, y) ==
    IF x.kind \in {"int", "float"} /\ y.kind \in {"int", "float"} THEN x.n = y.n
    ELSE IF x.kind = y.kind /\ x.kind \in {"dict", "list"}
    THEN DOMAIN x.n = DOMAIN y.n /\ \A k \in DOMAIN x.n : PyEqual(x.n[k], y.n[k])
    ELSE x = y

\* Python's  n & b  on an int and a bool.
PyBitAnd(n, b) == IF b THEN n % 2 ELSE 0

\* sys.float_info.max, above every fitness explored.
FloatInfoMax == MaxFitness + 1

InitialFitness(best) == IF best THEN 0 ELSE FloatInfoMax

\* A Solution as a comparison operand sees it.
SolutionObject(vs, f) == [kind |-> "Solution", variables |-> vs, fitness |-> f]

NewSolution(best) == SolutionObject(<<>>, InitialFitness(best))

\* Solution.__init__: the fields of the object it builds.
__init__(best, dom) ==
    [domain |-> dom, variables |-> EmptyDict, discovery_iteration |-> 0,
     fitness |-> InitialFitness(best)]

\* Solution.is_available: the variable is a key of the store.
is_available(vs, variable) == variable \in DOMAIN vs

\* The loop of __eq__ from position i on; keys is list(self.__variables.keys()),
\* and  i < len(keys) & res  is  i < (len(keys) & res).
RECURSIVE EqLoop(_, _, _, _, _, _)
EqLoop(i, res, keys, vs, dom, oth) ==
    IF ~(i < PyBitAnd(Len(keys), res)) THEN Return(vs, res)
    ELSE LET vf == get_basic_value(vs, dom, keys[i + 1], "none")
             vo == get_basic_value(oth.variables, dom, keys[i + 1], "none")
         IN IF vf.err # NoErr THEN Raise(vs, vf.err)
            ELSE IF vo.err # NoErr THEN Raise(vs, vo.err)
            ELSE EqLoop(i + 1, IF ~PyEqual(vf.ret, vo.ret) THEN FALSE ELSE res, keys, vs, dom, oth)

\* self == oth, both Solutions over the domain dom; keys is the order in which
\* self.__variables lists its keys.
__eq__(vs, dom, keys, oth) ==
    IF oth.kind # "Solution" THEN Return(vs, FALSE)
    ELSE EqLoop(0, TRUE, keys, vs, dom, oth)

__ne__(vs, dom, keys, oth) ==
    LET r == __eq__(vs, dom, keys, oth) IN
    IF r.err # NoErr THEN r ELSE Return(vs, ~r.ret)

\* hash(None): one value. hash(x) of a number: numbers that are equal have
\* equal hashes, whether int or float.
PyHashNone == [of |-> "None", n |-> 0]
PyHash(x) == [of |-> "number", n |-> x]

\* hash(t) of a tuple, given the hashes of its items in order: computed from
\* them alone. Tuples whose items' hashes differ are taken to hash differently.
PyHashTuple(hashes) == [of |-> "tuple", n |-> hashes]

\* Solution.__hash__: hash((self.__variables.__hash__, self.fitness)). The
\* attribute __hash__ of a dict is None, so the store does not enter the hash.
__hash__(slf) == PyHashTuple(<<PyHashNone, PyHash(slf.fitness)>>)

\* __lt__ that lets the number of assigned variables break a tie.
__lt__ThenVariables(slf, oth) ==
    IF oth.kind # "Solution" THEN Raise(slf.variables, "AttributeError")
    ELSE Return(slf.variables, \/ slf.fitness < oth.fitness
                               \/ /\ slf.fitness = oth.fitness
                                  /\ Cardinality(DOMAIN slf.variables) < Cardinality(DOMAIN oth.variables))

__lt__(slf, oth) ==
    IF oth.kind # "Solution" THEN Raise(slf.variables, "AttributeError")
    ELSE Return(slf.variables, slf.fitness < oth.fitness)

__le__(slf, oth) ==
    IF oth.kind # "Solution" THEN Raise(slf.variables, "AttributeError")
    ELSE Return(slf.variables, slf.fitness <= oth.fitness)

__gt__(slf, oth) ==
    IF oth.kind # "Solution" THEN Raise(slf.variables, "AttributeError")
    ELSE Return(slf.variables, slf.fitness > oth.fitness)

__ge__(slf, oth) ==
    IF oth.kind # "Solution" THEN Raise(slf.variables, "AttributeError")
    ELSE Return(slf.variables, slf.fitness >= oth.fitness)

(***************************************************************************)
(* metaheuristics/random/random_search.py: RandomSearch                    *)
(***************************************************************************)
\* The RandomSearch object and the locals of its run: where run is (pc), the
\* candidates, the best solution so far and the candidate whose object it is
\* (shares, 0 when it is an object of its own), the two loop positions, and,
\* as a record of the run, the mutate-then-evaluate steps made and the
\* fitness values seen.
NoSearch ==
    [pc |-> "idle", search_space_size |-> 0, iterations |-> 0,
     potential_solutions |-> <<>>, solution |-> NewSolution(FALSE), shares |-> 0,
     i |-> 0, ps |-> 0, steps |-> 0, seen |-> {}]

\* RandomSearch.__init__.
RandomSearch(search_space_size, iterations) ==
    [NoSearch EXCEPT !.pc = "built", !.search_space_size = search_space_size,
                     !.iterations = iterations]

\* min(s) of a non-empty list: the first item that no later item is < of.
RECURSIVE MinFrom(_, _, _)
MinFrom(s, k, best) ==
    IF k > Len(s) THEN best
    ELSE MinFrom(s, k + 1, IF __lt__(s[k], s[best]).ret THEN k ELSE best)
PyMin(s) == s[MinFrom(s, 2, 1)]

\* Lines 75-82: the candidates are built and the first minimum is copied;
\* min raises ValueError on an empty list.
run_build(srch) ==
    LET built == [k \in 1..srch.search_space_size |-> NewSolution(FALSE)] IN
    IF Len(built) = 0 THEN [srch EXCEPT !.pc = "raised"]
    ELSE [srch EXCEPT !.pc = "loop",
                      !.potential_solutions = built,
                      !.solution = deepcopy(PyMin(built)),
                      !.shares = 0,
                      !.i = 0, !.ps = 1,
                      !.seen = {built[k].fitness : k \in 1..Len(built)}]

\* Lines 88-89 with the copy left out: solution becomes the candidate itself.
run_select_Uncopied(srch, k) ==
    IF __lt__(srch.potential_solutions[k], srch.solution).ret
    THEN [srch EXCEPT !.solution = srch.potential_solutions[k], !.shares = k]
    ELSE srch

\* Lines 88-89: if ps < solution: solution = deepcopy(ps).
run_select(srch, k) ==
    IF __lt__(srch.potential_solutions[k], srch.solution).ret
    THEN [srch EXCEPT !.solution = deepcopy(srch.potential_solutions[k]), !.shares = 0]
    ELSE srch

\* ps.mutate() and ps.evaluate(self.fitness) on candidate k: it holds the
\* store vs and the fitness f afterwards, and so does solution when it is
\* that same object.
run_mutate_evaluate(srch, k, vs, f) ==
    [srch EXCEPT !.potential_solutions[k] = SolutionObject(vs, f),
                 !.solution = IF srch.shares = k THEN SolutionObject(vs, f) ELSE @,
                 !.steps = @ + 1,
                 !.seen = @ \cup {f}]

\* One pass of the inner loop body (lines 86-89) on candidate srch.ps, and
\* the move to the next candidate or the next iteration.
run_step(srch, vs, f) ==
    LET done == run_select(run_mutate_evaluate(srch, srch.ps, vs, f), srch.ps) IN
    IF srch.ps < Len(srch.potential_solutions)
    THEN [done EXCEPT !.ps = @ + 1]
    ELSE [done EXCEPT !.ps = 1, !.i = @ + 1]

(***************************************************************************)
(* The explored domains and inputs                                         *)
(***************************************************************************)
\* The domain: a scalar I, a layer L, a scalar-vector V of max_size k and a
\* layer-vector W of max_size j whose layer declares a and b.
Definitions(k, j) ==
    [v \in {"I", "L", "V", "W"} |->
        CASE v = "I" -> IntegerDef(1, 2)
          [] v = "L" -> LayerDef([a |-> RealDef(0, 1),
                                  b |-> CategoricalDef({PyStr(1)})])
          [] v = "V" -> VectorDef(0, k, IntegerDef(1, 2))
          [] v = "W" -> VectorDef(0, j, LayerDef([a |-> IntegerDef(1, 1),
                                                  b |-> CategoricalDef({PyStr(1)})]))]

DomainArgs == {"none"} \cup domains
ScalarInputs == {PyInt(0), PyInt(1), PyInt(2), PyInt(3), PyFloat(1), PyStr(1)}
IndexInputs == -1..MaxLen

Item(e, v) == [el |-> e, val |-> v]
\* (element, value) pairs a call may pass; z is an element no layer declares
ElementInputs ==
    {Item("a", x) : x \in {PyInt(0), PyInt(1), PyInt(2), PyFloat(1)}}
    \cup {Item("b", PyStr(1)), Item("b", PyInt(1)), Item("z", PyInt(1))}

\* dicts a call may pass as a layer value, as their items in order
LayerInputs ==
    { <<>>,
      <<Item("a", PyInt(1))>>, <<Item("a", PyInt(2))>>, <<Item("a", PyFloat(1))>>,
      <<Item("b", PyStr(1))>>, <<Item("b", PyInt(1))>>, <<Item("z", PyInt(1))>>,
      <<Item("a", PyInt(1)), Item("b", PyStr(1))>>,
      <<Item("a", PyFloat(1)), Item("b", PyStr(1))>>,
      <<Item("a", PyInt(1)), Item("z", PyInt(1))>> }

Repeat(x, n) == [i \in 1..n |-> x]
\* lists a call may pass as a scalar-vector value
BasicListInputs ==
    {Repeat(x, n) : x \in {PyInt(1), PyInt(2), PyInt(0)}, n \in 0..MaxLen}
    \cup {<<PyInt(1), PyInt(2)>>, <<PyInt(2), PyInt(0)>>}
\* lists a call may pass as a layer-vector value
LayerListInputs ==
    {Repeat(x, n) : x \in { <<Item("a", PyInt(1)), Item("b", PyStr(1))>>,
                            <<Item("a", PyInt(1))>>,
                            <<Item("a", PyInt(2))>>,
                            <<>> },
                    n \in 0..MaxLen}
    \cup { << <<Item("b", PyStr(1))>>, <<Item("a", PyInt(1)), Item("b", PyStr(1))>> >> }

\* One argument of each sort, for the calls whose other arguments decide the
\* outcome: a call on a variable of another category, or with no domain given.
RepScalar == PyInt(1)
RepElement == Item("a", PyInt(1))
RepLayers == {<<>>, <<Item("a", PyInt(1))>>}
RepBasicLists == {<<>>, <<PyInt(1)>>}
RepLayerLists == {<<>>, << <<>> >>, << <<Item("a", PyInt(1))>> >>}

\* The calls explored: every argument with the domain given on a variable of
\* the operation's category (targets); the representative arguments on every
\* variable, with and without a domain.
Explore(v, targets, d, rep) ==
    \/ v \in targets /\ d # "none" /\ v \in DOMAIN DomainDefs(d)
    \/ rep

\* The exploration follows Solutions whose lists and dicts have at most MaxLen
\* entries.
Explored(vs) ==
    \A v \in DOMAIN vs :
        IF PyLen(vs[v]).err = NoErr THEN PyLen(vs[v]).ret <= MaxLen ELSE TRUE

EmptyStore == [x \in {} |-> PyInt(0)]

Init ==
    /\ definitions \in {Definitions(k, j) : k \in 0..MaxSize, j \in 0..MaxLen}
    /\ domains \in {{"D"}, {"D", "E"}}
    /\ domain \in {"none"} \cup domains
    /\ variables = EmptyStore
    /\ fitness = InitialFitness(FALSE)
    /\ other = NewSolution(FALSE)
    /\ problem_definition = EmptyDict
    /\ caller = NoCaller
    /\ discovery_iteration = 0
    /\ search = NoSearch
    /\ last = [op |-> "__init__", var |-> "", err |-> NoErr]

\* A call of op on var with outcome out: the store it leaves, and what it raised.
Do(op, var, out) ==
    /\ Explored(out.variables)
    /\ variables' = out.variables
    /\ last' = [op |-> op, var |-> var, err |-> out.err]
    /\ UNCHANGED <<definitions, domains, domain, fitness, other, problem_definition, caller, discovery_iteration, search>>

SetDomain ==
    /\ domain' \in domains
    /\ last' = [op |-> "set_domain", var |-> "", err |-> NoErr]
    /\ UNCHANGED <<definitions, domains, variables, fitness, other, problem_definition, caller, discovery_iteration, search>>

\* Each action takes the variable names G the calls may pass.
SetBasic(G) ==
    \E v \in G, x \in ScalarInputs, d \in DomainArgs :
        /\ Explore(v, {"I"}, d, x = RepScalar)
        /\ Do("set_basic", v, set_basic(variables, domain, v, x, d))

SetLayer(G) ==
    \E v \in G, x \in LayerInputs, d \in DomainArgs :
        /\ Explore(v, {"L"}, d, x \in RepLayers)
        /\ Do("set_layer", v, set_layer(variables, domain, v, x, d))

SetElement(G) ==
    \E v \in G, e \in ElementInputs, d \in DomainArgs :
        /\ Explore(v, {"L"}, d, e = RepElement)
        /\ Do("set_element", v, set_element(variables, domain, v, e.el, e.val, d))

SetBasicVector(G) ==
    \E v \in G, x \in BasicListInputs, d \in DomainArgs :
        /\ Explore(v, {"V"}, d, x \in RepBasicLists)
        /\ Do("set_basic_vector", v, set_basic_vector(variables, domain, v, x, d))

AddBasicComponent(G) ==
    \E v \in G, x \in ScalarInputs, d \in DomainArgs :
        /\ Explore(v, {"V"}, d, x = RepScalar)
        /\ Do("add_basic_component", v,
              add_basic_component(variables, domain, v, x, d))

InsertBasicComponent(G) ==
    \E v \in G, i \in IndexInputs, x \in ScalarInputs, d \in DomainArgs :
        /\ Explore(v, {"V"}, d, x = RepScalar /\ i = 0)
        /\ Do("insert_basic_component", v,
              insert_basic_component(variables, domain, v, i, x, d))

SetBasicComponent(G) ==
    \E v \in G, i \in IndexInputs, x \in ScalarInputs, d \in DomainArgs :
        /\ Explore(v, {"V"}, d, x = RepScalar /\ i = 0)
        /\ Do("set_basic_component", v,
              set_basic_component(variables, domain, v, i, x, d))

SetLayerVector(G) ==
    \E v \in G, x \in LayerListInputs, d \in DomainArgs :
        /\ Explore(v, {"W"}, d, x \in RepLayerLists)
        /\ Do("set_layer_vector", v, set_layer_vector(variables, domain, v, x, d))

AddLayerComponent(G) ==
    \E v \in G, x \in LayerInputs, d \in DomainArgs :
        /\ Explore(v, {"W"}, d, x \in RepLayers)
        /\ Do("add_layer_component", v,
              add_layer_component(variables, domain, v, x, d))

InsertLayerComponent(G) ==
    \E v \in G, i \in IndexInputs, x \in LayerInputs, d \in DomainArgs :
        /\ Explore(v, {"W"}, d, x \in RepLayers /\ i = 0)
        /\ Do("insert_layer_component", v,
              insert_layer_component(variables, domain, v, i, x, d))

SetLayerComponent(G) ==
    \E v \in G, i \in IndexInputs, x \in LayerInputs, d \in DomainArgs :
        /\ Explore(v, {"W"}, d, x \in RepLayers /\ i = 0)
        /\ Do("set_layer_component", v,
              set_layer_component(variables, domain, v, i, x, d))

AddElementToLayerComponent(G) ==
    \E v \in G, e \in ElementInputs, d \in DomainArgs :
        /\ Explore(v, {"W"}, d, e = RepElement)
        /\ Do("add_element_to_layer_component", v,
              add_element_to_layer_component(variables, domain, v, e.el, e.val, d))

InsertElementToLayerComponent(G) ==
    \E v \in G, i \in IndexInputs, e \in ElementInputs, d \in DomainArgs :
        /\ Explore(v, {"W"}, d, e = RepElement /\ i = 0)
        /\ Do("insert_element_to_layer_component", v,
              insert_element_to_layer_component(variables, domain, v, i, e.el,
                                                e.val, d))

SetElementOfLayerComponent(G) ==
    \E v \in G, i \in IndexInputs, e \in ElementInputs, d \in DomainArgs :
        /\ Explore(v, {"W"}, d, e = RepElement /\ i = 0)
        /\ Do("set_element_of_layer_component", v,
              set_element_of_layer_component(variables, domain, v, i, e.el,
                                             e.val, d))

RemoveComponent(G) ==
    \E v \in G, d \in DomainArgs :
        Do("remove_component", v, remove_component(variables, domain, v, d))

DeleteComponent(G) ==
    \E v \in G, i \in IndexInputs, d \in DomainArgs :
        /\ Explore(v, {"V", "W"}, d, i = 0)
        /\ Do("delete_component", v, delete_component(variables, domain, v, i, d))

GetBasicValue(G) ==
    \E v \in G, d \in DomainArgs :
        Do("get_basic_value", v, get_basic_value(variables, domain, v, d))

GetElementValue(G) ==
    \E v \in G, e \in {"a", "b", "z"}, d \in DomainArgs :
        /\ Explore(v, {"L"}, d, e = "a")
        /\ Do("get_element_value", v, get_element_value(variables, domain, v, e, d))

GetBasicComponentValue(G) ==
    \E v \in G, i \in IndexInputs, d \in DomainArgs :
        /\ Explore(v, {"V"}, d, i = 0)
        /\ Do("get_basic_component_value", v,
              get_basic_component_value(variables, domain, v, i, d))

GetLayerComponentValue(G) ==
    \E v \in G, i \in IndexInputs, e \in {"a", "b", "z"}, d \in DomainArgs :
        /\ Explore(v, {"W"}, d, i = 0 /\ e = "a")
        /\ Do("get_layer_component_value", v,
              get_layer_component_value(variables, domain, v, i, e, d))

\* The Solution's operations, called on the variable names G.
\* The names, limits and category lists the registrations are called with.
RegisteredNames == {"x", "y"}
Limits == 0..MaxSize
CategoryLists == {<<PyStr(1)>>, <<PyStr(1), PyStr(2)>>}

\* An optional index and an optional element: not passed, or passed.
IndexOptions == {[has |-> FALSE, n |-> 0]} \cup {[has |-> TRUE, n |-> i] : i \in IndexInputs}
ElementOptions == {[has |-> FALSE, n |-> ""]} \cup {[has |-> TRUE, n |-> e] : e \in {"a", "b", "z"}}

\* Every value without an index and with the solution's own domain; one
\* value with every index, element and domain.
SetValue(G) ==
    \E v \in G, x \in ScalarInputs, i \in IndexOptions, e \in ElementOptions, d \in DomainArgs :
        /\ (~i.has /\ d = "none") \/ x = RepScalar
        /\ Do("set_value", v, set_value(variables, domain, v, x, i.has, i.n, e.has, e.n, d))

GetValue(G) ==
    \E v \in G, i \in IndexOptions, e \in ElementOptions, d \in DomainArgs :
        /\ d = "none" \/ (i.n = 0 /\ e.n \in {"", "a"})
        /\ Do("get_value", v, get_value(variables, domain, v, i.has, i.n, e.has, e.n, d))

\* The registrations of a ProblemDefinition.
RegisterInteger ==
    \E name \in RegisteredNames, lo \in Limits, hi \in Limits :
        /\ problem_definition' = register_integer_variable(problem_definition, name, lo, hi, 1)
        /\ last' = [op |-> "register_integer_variable", var |-> name, err |-> NoErr]
        /\ UNCHANGED <<definitions, domains, domain, variables, fitness, other, caller, discovery_iteration, search>>

RegisterReal ==
    \E name \in RegisteredNames, lo \in Limits, hi \in Limits :
        /\ problem_definition' = register_real_variable(problem_definition, name, lo, hi, 1)
        /\ last' = [op |-> "register_real_variable", var |-> name, err |-> NoErr]
        /\ UNCHANGED <<definitions, domains, domain, variables, fitness, other, caller, discovery_iteration, search>>

RegisterCategorical ==
    \E name \in RegisteredNames, categories \in CategoryLists :
        /\ problem_definition' = register_categorical_variable(problem_definition, name, categories)
        /\ last' = [op |-> "register_categorical_variable", var |-> name, err |-> NoErr]
        /\ UNCHANGED <<definitions, domains, domain, variables, fitness, other, caller, discovery_iteration, search>>

RegisterLayer ==
    \E name \in RegisteredNames :
        /\ problem_definition' = register_layer_variable(problem_definition, name)
        /\ last' = [op |-> "register_layer_variable", var |-> name, err |-> NoErr]
        /\ UNCHANGED <<definitions, domains, domain, variables, fitness, other, caller, discovery_iteration, search>>

RegisterVector ==
    \E name \in RegisteredNames, lo \in Limits, hi \in Limits :
        /\ problem_definition' = register_vector_variable(problem_definition, name, lo, hi, 1)
        /\ last' = [op |-> "register_vector_variable", var |-> name, err |-> NoErr]
        /\ UNCHANGED <<definitions, domains, domain, variables, fitness, other, caller, discovery_iteration, search>>

\* A call of op on var that returned with outcome out, and whose argument
\* object the caller keeps; shared is where the store now holds that same object.
DoHeld(op, var, out, object, shared) ==
    /\ Explored(out.variables)
    /\ variables' = out.variables
    /\ last' = [op |-> op, var |-> var, err |-> out.err]
    /\ caller' = [held |-> TRUE, object |-> object, shared |-> shared]
    /\ UNCHANGED <<definitions, domains, domain, fitness, other, problem_definition, discovery_iteration, search>>

\* The dicts and lists the caller builds, passes and keeps.
CallerLayers ==
    { <<Item("a", PyInt(1)), Item("b", PyStr(1))>>,
      <<Item("a", PyFloat(1)), Item("b", PyStr(1))>> }
CallerBasicLists == {<<>>, <<PyInt(1)>>}
CallerLayerLists == {<<x>> : x \in CallerLayers}

CallerSetLayer ==
    \E x \in CallerLayers : \E out \in {set_layer(variables, domain, "L", x, "none")} :
        /\ out.err = NoErr
        /\ DoHeld("set_layer", "L", out, ToDict(x), set_layer_shares(out, "L"))

CallerSetBasicVector ==
    \E x \in CallerBasicLists : \E out \in {set_basic_vector(variables, domain, "V", x, "none")} :
        /\ out.err = NoErr
        /\ DoHeld("set_basic_vector", "V", out, PyList(x), {})

CallerSetLayerVector ==
    \E x \in CallerLayerLists : \E out \in {set_layer_vector(variables, domain, "W", x, "none")} :
        /\ out.err = NoErr
        /\ DoHeld("set_layer_vector", "W", out, PyList([i \in 1..Len(x) |-> ToDict(x[i])]), {})

CallerAddLayerComponent ==
    \E x \in CallerLayers : \E out \in {add_layer_component(variables, domain, "W", x, "none")} :
        /\ out.err = NoErr
        /\ DoHeld("add_layer_component", "W", out, ToDict(x), put_layer_shares(variables, out, "W", FALSE, 0))

CallerInsertLayerComponent ==
    \E i \in IndexInputs, x \in CallerLayers : \E out \in {insert_layer_component(variables, domain, "W", i, x, "none")} :
        /\ out.err = NoErr
        /\ DoHeld("insert_layer_component", "W", out, ToDict(x), put_layer_shares(variables, out, "W", TRUE, i))

CallerSetLayerComponent ==
    \E i \in IndexInputs, x \in CallerLayers : \E out \in {set_layer_component(variables, domain, "W", i, x, "none")} :
        /\ out.err = NoErr
        /\ DoHeld("set_layer_component", "W", out, ToDict(x), {})

\* The caller changes the object it holds: a new entry in its dict, or its
\* list emptied.
CallerChanges ==
    /\ caller.held
    /\ \E object \in {IF caller.object.kind = "dict" THEN PyDict(Put(caller.object.n, "z", PyInt(1))) ELSE PyList(<<>>)} :
          /\ caller' = [caller EXCEPT !.object = object]
          /\ variables' = WriteShared(variables, caller.shared, object)
    /\ last' = [op |-> "caller_change", var |-> "", err |-> NoErr]
    /\ UNCHANGED <<definitions, domains, domain, fitness, other, problem_definition, discovery_iteration, search>>

\* The layers a caller passes to a Solution whose domain declares the layers
\* L and M, and the elements it then sets.
FrameLayers ==
    { <<>>, <<Item("a", PyInt(1))>>, <<Item("a", PyFloat(1))>>, <<Item("b", PyStr(1))>>,
      <<Item("a", PyInt(1)), Item("b", PyStr(1))>>,
      <<Item("a", PyFloat(1)), Item("b", PyStr(1))>> }
FrameElements == {Item("a", PyInt(1)), Item("a", PyFloat(1)), Item("b", PyStr(1))}

\* set_layer(v, d) with a dict d the caller has just built.
FrameSetLayer(G) ==
    \E v \in G, x \in FrameLayers : \E out \in {set_layer(variables, domain, v, x, "none")} :
        /\ out.err = NoErr
        /\ DoHeld("set_layer", v, out, ToDict(x), set_layer_shares(out, v))

\* set_layer(v, d) with the dict d the caller passed before and still holds:
\* d is then the value of v as well.
FrameSetLayerAgain(G) ==
    \E v \in G, x \in FrameLayers : \E out \in {set_layer(variables, domain, v, x, "none")} :
        /\ caller.held /\ caller.object = ToDict(x)
        /\ out.err = NoErr
        /\ DoHeld("set_layer", v, out, ToDict(x), caller.shared \cup set_layer_shares(out, v))

\* set_element(v, element, value): layer_value[element] = value writes into
\* the dict stored for v, wherever else that same dict is stored or held.
FrameSetElement(G) ==
    \E v \in G, e \in FrameElements : \E out \in {set_element(variables, domain, v, e.el, e.val, "none")} :
        /\ IF out.err = NoErr /\ StoredAt(v, 0) \in caller.shared
           THEN /\ variables' = WriteShared(out.variables, caller.shared, out.variables[v])
                /\ caller' = [caller EXCEPT !.object = out.variables[v]]
           ELSE /\ variables' = out.variables
                /\ caller' = caller
        /\ last' = [op |-> "set_element", var |-> v, err |-> out.err]
        /\ UNCHANGED <<definitions, domains, domain, fitness, other, problem_definition, discovery_iteration, search>>

\* Solution(best, domain): the object is built anew; the caller shares nothing
\* with the new store.
Construct(best) ==
    \E dom \in DomainArgs :
        /\ domain' = __init__(best, dom).domain
        /\ variables' = __init__(best, dom).variables
        /\ discovery_iteration' = __init__(best, dom).discovery_iteration
        /\ fitness' = __init__(best, dom).fitness
        /\ caller' = NoCaller
        /\ last' = [op |-> "__init__", var |-> "", err |-> NoErr]
        /\ UNCHANGED <<definitions, domains, other, problem_definition, search>>

\* ctrl_dom.is_defined_as_layer_vector_variable(v, d, self.__domain).
IsDefinedAsLayerVectorVariable(G) ==
    \E v \in G, d \in DomainArgs :
        Do("is_defined_as_layer_vector_variable", v,
           [variables |-> variables, ret |-> "None",
            err |-> is_defined_as_layer_vector_variable(v, d, domain)])

\* RandomSearch.run, a step at a time.
SearchStores == {EmptyStore, [I |-> PyInt(1)]}

RunBuild ==
    /\ search.pc = "built"
    /\ search' = run_build(search)
    /\ last' = [op |-> "run", var |-> "",
                err |-> IF run_build(search).pc = "raised" THEN "ValueError" ELSE NoErr]
    /\ UNCHANGED <<definitions, domains, domain, variables, fitness, other, problem_definition, caller, discovery_iteration>>

RunStep ==
    /\ search.pc = "loop"
    /\ search.i < search.iterations
    /\ \E vs \in SearchStores, f \in 0..MaxFitness : search' = run_step(search, vs, f)
    /\ last' = [op |-> "run", var |-> "", err |-> NoErr]
    /\ UNCHANGED <<definitions, domains, domain, variables, fitness, other, problem_definition, caller, discovery_iteration>>

RunReturn ==
    /\ search.pc = "loop"
    /\ search.i >= search.iterations
    /\ search' = [search EXCEPT !.pc = "done"]
    /\ last' = [op |-> "run", var |-> "", err |-> NoErr]
    /\ UNCHANGED <<definitions, domains, domain, variables, fitness, other, problem_definition, caller, discovery_iteration>>

\* hash(self).
Hash ==
    \E slf \in {SolutionObject(variables, fitness)} :
        Do("__hash__", "", Return(variables, __hash__(slf)))

\* An assignment to the attribute fitness.
SetFitness ==
    /\ fitness' \in 0..MaxFitness
    /\ last' = [op |-> "fitness", var |-> "", err |-> NoErr]
    /\ UNCHANGED <<definitions, domains, domain, variables, other, problem_definition, caller, discovery_iteration, search>>

\* The orders in which a dict that holds the keys of vs may list them.
KeyOrders(vs) ==
    {k \in [1..Cardinality(DOMAIN vs) -> DOMAIN vs] : \A i, j \in DOMAIN k : k[i] = k[j] => i = j}

Eq == \E keys \in KeyOrders(variables) : Do("__eq__", "", __eq__(variables, domain, keys, other))

Ne == \E keys \in KeyOrders(variables) : Do("__ne__", "", __ne__(variables, domain, keys, other))

Lt == \E slf \in {SolutionObject(variables, fitness)} : Do("__lt__", "", __lt__(slf, other))

Le == \E slf \in {SolutionObject(variables, fitness)} : Do("__le__", "", __le__(slf, other))

Gt == \E slf \in {SolutionObject(variables, fitness)} : Do("__gt__", "", __gt__(slf, other))

Ge == \E slf \in {SolutionObject(variables, fitness)} : Do("__ge__", "", __ge__(slf, other))

NextOn(G) ==
    \/ SetDomain
    \/ SetBasic(G) \/ SetLayer(G) \/ SetElement(G)
    \/ SetBasicVector(G) \/ AddBasicComponent(G) \/ InsertBasicComponent(G)
    \/ SetBasicComponent(G)
    \/ SetLayerVector(G) \/ AddLayerComponent(G) \/ InsertLayerComponent(G)
    \/ SetLayerComponent(G)
    \/ AddElementToLayerComponent(G) \/ InsertElementToLayerComponent(G)
    \/ SetElementOfLayerComponent(G)
    \/ RemoveComponent(G) \/ DeleteComponent(G)
    \/ GetBasicValue(G) \/ GetElementValue(G)
    \/ GetBasicComponentValue(G) \/ GetLayerComponentValue(G)

\* A Solution built with or without a domain: calls on the scalar I and on
\* the undeclared name U.
BasicNames == {"I", "U"}
InitBasic == Init /\ definitions = Definitions(MaxSize, MaxSize) /\ domains = {"D"}
NextBasic == NextOn(BasicNames)
SpecBasic == InitBasic /\ [][NextBasic]_vars

\* The same Solutions: calls on the layer L.
LayerNames == {"L"}
NextLayer == NextOn(LayerNames)
SpecLayer == InitBasic /\ [][NextLayer]_vars

\* A Solution built with the domain, V of each max_size 0..MaxSize: calls on
\* the scalar-vector V.
VectorNames == {"V"}
InitVector ==
    /\ Init /\ domains = {"D"} /\ domain = "D"
    /\ definitions["W"] = Definitions(MaxSize, MaxSize)["W"]
NextVector == NextOn(VectorNames)
SpecVector == InitVector /\ [][NextVector]_vars

\* A Solution built with the domain, W of each max_size 0..MaxLen: calls on
\* the layer-vector W.
LayerVectorNames == {"W"}
InitLayerVector ==
    /\ Init /\ domains = {"D"} /\ domain = "D"
    /\ definitions["V"] = Definitions(MaxSize, MaxSize)["V"]
NextLayerVector == NextOn(LayerVectorNames)
SpecLayerVector == InitLayerVector /\ [][NextLayerVector]_vars

\* A Solution and two Domain objects, D and E: calls on the scalar I.
DomainNames == {"I"}
InitDomains == Init /\ definitions = Definitions(MaxSize, MaxSize) /\ domains = {"D", "E"}
NextDomains == NextOn(DomainNames)
SpecDomains == InitDomains /\ [][NextDomains]_vars

\* Two Solutions over the domain D, the second one built and filled
\* beforehand: calls on I and L, assignments to fitness, and the comparisons.
CompareNames == {"I", "L"}
OtherStores ==
    { EmptyStore,
      "I" :> PyInt(1),
      "I" :> PyInt(2),
      "L" :> PyDict([a |-> PyFloat(1)]),
      "I" :> PyInt(1) @@ "L" :> PyDict([a |-> PyFloat(1)]) }
OtherInputs ==
    {SolutionObject(vs, f) : vs \in OtherStores, f \in 0..FloatInfoMax} \cup {PyInt(1)}
InitCompare ==
    /\ definitions = Definitions(MaxSize, MaxSize)
    /\ domains = {"D"}
    /\ domain = "D"
    /\ variables = EmptyStore
    /\ \E best \in BOOLEAN : fitness = InitialFitness(best)
    /\ other \in OtherInputs
    /\ problem_definition = EmptyDict
    /\ caller = NoCaller
    /\ discovery_iteration = 0
    /\ search = NoSearch
    /\ last = [op |-> "__init__", var |-> "", err |-> NoErr]
NextCompare ==
    \/ SetBasic(CompareNames) \/ SetElement(CompareNames)
    \/ SetFitness
    \/ Eq \/ Ne \/ Lt \/ Le \/ Gt \/ Ge
SpecCompare == InitCompare /\ [][NextCompare]_vars

\* A Solution built with a domain whose layer-vector W declares min_size 1 and
\* max_size MaxLen: calls on W.
MinSizeDefinitions == [Definitions(MaxSize, MaxLen) EXCEPT !["W"].min_size = 1]
InitMinSize ==
    /\ definitions = MinSizeDefinitions
    /\ domains = {"D"}
    /\ domain = "D"
    /\ variables = EmptyStore
    /\ fitness = InitialFitness(FALSE)
    /\ other = NewSolution(FALSE)
    /\ problem_definition = EmptyDict
    /\ caller = NoCaller
    /\ discovery_iteration = 0
    /\ search = NoSearch
    /\ last = [op |-> "__init__", var |-> "", err |-> NoErr]
NextMinSize == NextOn(LayerVectorNames)
SpecMinSize == InitMinSize /\ [][NextMinSize]_vars

\* A Solution built with the domain, V of max_size MaxSize and W of max_size
\* MaxLen: components added to and inserted into V and W, and removed from
\* either.
InitComponents ==
    /\ Init /\ domains = {"D"} /\ domain = "D"
    /\ definitions = Definitions(MaxSize, MaxLen)
NextComponents ==
    \/ AddBasicComponent(VectorNames) \/ InsertBasicComponent(VectorNames)
    \/ AddLayerComponent(LayerVectorNames) \/ InsertLayerComponent(LayerVectorNames)
    \/ RemoveComponent(VectorNames \cup LayerVectorNames)
SpecComponents == InitComponents /\ [][NextComponents]_vars

\* A Solution built with the domain: set_value and get_value on every
\* variable, and the two vectors assigned whole.
DispatchNames == {"I", "L", "V", "W"}
InitDispatch ==
    /\ Init /\ domains = {"D"} /\ domain = "D"
    /\ definitions = Definitions(MaxSize, MaxSize)
NextDispatch ==
    \/ SetValue(DispatchNames) \/ GetValue(DispatchNames)
    \/ SetBasicVector(VectorNames) \/ SetLayerVector(LayerVectorNames)
SpecDispatch == InitDispatch /\ [][NextDispatch]_vars

\* A ProblemDefinition from its construction on: registrations of every kind
\* under the names x and y.
InitRegistry == Init /\ definitions = Definitions(MaxSize, MaxSize) /\ domains = {"D"} /\ domain = "D"
NextRegistry ==
    \/ RegisterInteger \/ RegisterReal \/ RegisterCategorical
    \/ RegisterLayer \/ RegisterVector
SpecRegistry == InitRegistry /\ [][NextRegistry]_vars

\* A Solution built with the domain and a caller that keeps the dict or list
\* it passed to the last call, and changes it afterwards.
InitAlias == Init /\ definitions = Definitions(MaxSize, MaxLen) /\ domains = {"D"} /\ domain = "D"
NextAlias ==
    \/ CallerSetLayer \/ CallerSetBasicVector \/ CallerSetLayerVector
    \/ CallerAddLayerComponent \/ CallerInsertLayerComponent \/ CallerSetLayerComponent
    \/ CallerChanges
SpecAlias == InitAlias /\ [][NextAlias]_vars

\* A Solution built with a domain that also registers the vector N, whose
\* component type has not been set: calls on N.
UndefinedNames == {"N"}
UndefinedDefinitions ==
    Put(Definitions(MaxSize, MaxLen), "N", VectorDef(0, MaxLen, [type |-> "UNDEFINED"]))
InitUndefined ==
    /\ definitions = UndefinedDefinitions
    /\ domains = {"D"}
    /\ domain \in {"none", "D"}
    /\ variables = EmptyStore
    /\ fitness = InitialFitness(FALSE)
    /\ other = NewSolution(FALSE)
    /\ problem_definition = EmptyDict
    /\ caller = NoCaller
    /\ discovery_iteration = 0
    /\ search = NoSearch
    /\ last = [op |-> "__init__", var |-> "", err |-> NoErr]
NextUndefined == NextOn(UndefinedNames)
SpecUndefined == InitUndefined /\ [][NextUndefined]_vars

\* A Solution built with or without one of the domains D and E, D registering
\* I, L, V, W and the vector N of no component type: the definition checks on
\* every name, and the calls on the scalar I.
DefinedNames == {"I", "L", "V", "W", "N", "U"}
InitDefined ==
    /\ definitions = UndefinedDefinitions
    /\ domains \in {{"D"}, {"D", "E"}}
    /\ domain \in {"none"} \cup domains
    /\ variables = EmptyStore
    /\ fitness = InitialFitness(FALSE)
    /\ other = NewSolution(FALSE)
    /\ problem_definition = EmptyDict
    /\ caller = NoCaller
    /\ discovery_iteration = 0
    /\ search = NoSearch
    /\ last = [op |-> "__init__", var |-> "", err |-> NoErr]
NextDefined == NextOn(DomainNames) \/ IsDefinedAsLayerVectorVariable(DefinedNames)
SpecDefined == InitDefined /\ [][NextDefined]_vars

\* A RandomSearch of 0..MaxLen candidates and 0..MaxLen iterations, and its
\* run; the run goes on while it can.
InitSearch ==
    /\ definitions = Definitions(MaxSize, MaxSize)
    /\ domains = {"D"}
    /\ domain = "D"
    /\ variables = EmptyStore
    /\ fitness = InitialFitness(FALSE)
    /\ other = NewSolution(FALSE)
    /\ problem_definition = EmptyDict
    /\ caller = NoCaller
    /\ discovery_iteration = 0
    /\ search \in {RandomSearch(n, k) : n \in 0..MaxLen, k \in 0..MaxLen}
    /\ last = [op |-> "__init__", var |-> "", err |-> NoErr]
NextSearch == RunBuild \/ RunStep \/ RunReturn
SpecSearch == InitSearch /\ [][NextSearch]_vars /\ WF_vars(NextSearch)

\* A Solution built with a domain that declares two layers, L and M, of the
\* same elements: layers set, set again from the dict the caller holds,
\* elements set and read.
FrameNames == {"L", "M"}
FrameDefinitions ==
    Put(Definitions(MaxSize, MaxLen), "M", Definitions(MaxSize, MaxLen)["L"])
InitFrame ==
    /\ definitions = FrameDefinitions
    /\ domains = {"D"}
    /\ domain = "D"
    /\ variables = EmptyStore
    /\ fitness \in {InitialFitness(FALSE), InitialFitness(TRUE)}
    /\ other = NewSolution(FALSE)
    /\ problem_definition = EmptyDict
    /\ caller = NoCaller
    /\ discovery_iteration = 0
    /\ search = NoSearch
    /\ last = [op |-> "__init__", var |-> "", err |-> NoErr]
NextFrame ==
    \/ FrameSetLayer(FrameNames) \/ FrameSetLayerAgain(FrameNames)
    \/ FrameSetElement(FrameNames) \/ GetElementValue(FrameNames)
SpecFrame == InitFrame /\ [][NextFrame]_vars

\* The two Solutions of the comparisons, compared and hashed.
NextHash == NextCompare \/ Hash
SpecHash == InitCompare /\ [][NextHash]_vars

\* Solutions built with best True or False, with the domain or with none, and
\* the calls on the layer-vector W of each.
InitNew == InitComponents
NextNew == Construct(TRUE) \/ Construct(FALSE) \/ NextOn(LayerVectorNames)
SpecNew == InitNew /\ [][NextNew]_vars

(***************************************************************************)
(* Properties of the store                                                 *)
(***************************************************************************)
MutationOps ==
    {"set_basic", "set_layer", "set_element", "set_basic_vector",
     "add_basic_component", "insert_basic_component", "set_basic_component",
     "set_layer_vector", "add_layer_component", "insert_layer_component",
     "set_layer_component", "add_element_to_layer_component",
     "insert_element_to_layer_component", "set_element_of_layer_component",
     "remove_component", "delete_component"}

\* C1: a mutation operation that ends by raising leaves the variable store
\* identical to what it was before the call.
C1_RaisingCallLeavesStore ==
    [][(last'.op \in MutationOps /\ last'.err # NoErr) => variables' = variables]_vars

IsScalar(x) == x.kind \in {"int", "float", "str"}
SatisfiesDefinition(def, x) == IsScalar(x) /\ check_scalar(def, x)
\* The values stored for the declared elements of one layer value.
LayerSatisfies(els, x) ==
    /\ x.kind = "dict"
    /\ \A e \in DOMAIN x.n \cap DOMAIN els : SatisfiesDefinition(els[e], x.n[e])
\* The values stored for a declared variable satisfy its definition.
StoredSatisfies(def, x) ==
    CASE def.type \in BASIC_TYPE -> SatisfiesDefinition(def, x)
      [] def.type = "LAYER" -> LayerSatisfies(def.elements, x)
      [] def.type = "VECTOR" ->
           /\ x.kind = "list"
           /\ \A i \in 1..Len(x.n) :
                IF def.components.type = "LAYER"
                THEN LayerSatisfies(def.components.elements, x.n[i])
                ELSE SatisfiesDefinition(def.components, x.n[i])

\* C2: every scalar stored for a scalar variable, a layer element, a
\* scalar-vector component or an element of a layer-vector component
\* satisfies its definition.
C2_StoredScalarsSatisfyDefinitions ==
    \A v \in DOMAIN variables \cap DOMAIN definitions :
        StoredSatisfies(definitions[v], variables[v])

\* C3: the stored length of every assigned vector variable is at most the
\* vector's declared max_size.
C3_VectorLengthWithinMaxSize ==
    \A v \in DOMAIN variables \cap DOMAIN definitions :
        (definitions[v].type = "VECTOR" /\ variables[v].kind = "list")
            => Len(variables[v].n) <= definitions[v].max_size

(***************************************************************************)
(* Properties of the vector operations                                     *)
(***************************************************************************)
\* The outcome of the n-th of n add_basic_component(var, x) calls in a row on vs.
RECURSIVE AddRun(_, _, _, _)
AddRun(vs, var, x, n) ==
    IF n = 1 THEN add_basic_component(vs, domain, var, x, "none")
    ELSE add_basic_component(AddRun(vs, var, x, n - 1).variables, domain, var, x,
                             "none")

\* C4: on a scalar-vector of max_size k that is not yet assigned,
\* add_basic_component with a valid value succeeds k times in a row and the
\* (k+1)-th call raises a SolutionError.
C4_AddSucceedsExactlyMaxSizeTimes ==
    ("V" \notin DOMAIN variables /\ domain = "D") =>
        LET k == definitions["V"].max_size IN
        \A x \in {PyInt(1), PyInt(2)} :
            /\ \A n \in 1..k : AddRun(variables, "V", x, n).err = NoErr
            /\ AddRun(variables, "V", x, k + 1).err = "SolutionError"

IsList(vs, v) == v \in DOMAIN vs /\ vs[v].kind = "list"
LastComponent(vs, v) == vs[v].n[Len(vs[v].n)]
\* The last component of the layer-vector v holds every element its layer declares.
LastComplete(vs, v) ==
    DOMAIN LastComponent(vs, v).n = DOMAIN definitions[v].components.elements

\* C5: add_element_to_layer_component on a layer-vector with components makes
\* the vector longer only if its last component was complete; while the last
\* component lacks a declared element, an accepted call keeps the length and
\* adds an element to the last component.
C5_NewComponentOnlyAfterComplete ==
    [][(/\ last'.op = "add_element_to_layer_component"
        /\ last'.var = "W"
        /\ last'.err = NoErr
        /\ IsList(variables, "W") /\ Len(variables["W"].n) > 0
        /\ ~LastComplete(variables, "W"))
       => /\ Len(variables'["W"].n) = Len(variables["W"].n)
          /\ DOMAIN LastComponent(variables, "W").n
                 # DOMAIN LastComponent(variables', "W").n
          /\ DOMAIN LastComponent(variables, "W").n
                 \subseteq DOMAIN LastComponent(variables', "W").n]_vars

\* C6: on a layer-vector of elements {a, b} that is not yet assigned and has
\* room for two components, add_element_to_layer_component(a) succeeds and
\* leaves one component holding a; then (b) succeeds and leaves one component
\* holding a and b; then (a) succeeds and leaves two components, the second
\* holding a alone.
C6_ElementAppendsFillThenExtend ==
    ("W" \notin DOMAIN variables /\ domain = "D" /\ definitions["W"].max_size >= 2) =>
        LET a == PyInt(1)
            b == PyStr(1)
            s1 == add_element_to_layer_component(variables, domain, "W", "a", a, "none")
            s2 == add_element_to_layer_component(s1.variables, domain, "W", "b", b,
                                                 "none")
            s3 == add_element_to_layer_component(s2.variables, domain, "W", "a", a,
                                                 "none")
        IN /\ s1.err = NoErr
           /\ s1.variables["W"] = PyList(<<PyDict([a |-> a])>>)
           /\ s2.err = NoErr
           /\ s2.variables["W"] = PyList(<<PyDict([a |-> a, b |-> b])>>)
           /\ s3.err = NoErr
           /\ s3.variables["W"] = PyList(<<PyDict([a |-> a, b |-> b]), PyDict([a |-> a])>>)

\* C9: set_basic_component never extends a vector: on a vector with no value
\* yet the call is rejected, a rejected call leaves the store as it was, and
\* an accepted call leaves the length as it was.
C9_SetComponentNeverExtends ==
    [][(last'.op = "set_basic_component" /\ last'.var = "V")
       => /\ "V" \notin DOMAIN variables => last'.err # NoErr
          /\ last'.err # NoErr => variables' = variables
          /\ (last'.err = NoErr /\ IsList(variables, "V"))
                => Len(variables'["V"].n) = Len(variables["V"].n)]_vars

(***************************************************************************)
(* Properties of the getters                                               *)
(***************************************************************************)
\* C7: after set_basic accepts a value for the scalar variable I,
\* get_basic_value of I returns that value.
C7_BasicRoundTrip ==
    \A x \in ScalarInputs, d \in DomainArgs :
        LET s == set_basic(variables, domain, "I", x, d) IN
        s.err = NoErr => get_basic_value(s.variables, domain, "I", d)
                             = Return(s.variables, x)

C7_Witness ==
    /\ last = [op |-> "get_basic_value", var |-> "I", err |-> NoErr]
    /\ variables["I"] = PyInt(2)

\* C8: after set_element accepts a value for a declared element of the layer
\* L, get_element_value of that element returns the value and does not raise.
C8_ElementRoundTrip ==
    \A e \in ElementInputs, d \in DomainArgs :
        LET s == set_element(variables, domain, "L", e.el, e.val, d) IN
        s.err = NoErr => get_element_value(s.variables, domain, "L", e.el, d)
                             = Return(s.variables, e.val)

\* C10: with a domain in force, get_basic_value of the declared scalar I
\* raises a SolutionError while I is not assigned, and get_basic_value of the
\* undeclared name U raises a DefinitionError.
C10_UnassignedVersusUndeclared ==
    \A d \in DomainArgs :
        get_valid_domain(d, domain).err = NoErr =>
            /\ "I" \notin DOMAIN variables =>
                   get_basic_value(variables, domain, "I", d).err = "SolutionError"
            /\ get_basic_value(variables, domain, "U", d).err = "DefinitionError"

C10_Witness ==
    /\ last = [op |-> "get_basic_value", var |-> "U", err |-> "DefinitionError"]
    /\ "I" \notin DOMAIN variables
    /\ domain = "D"

\* Position index of the stored list of v is populated.
Populated(vs, v, index) == IsList(vs, v) /\ 0 <= index /\ index < Len(vs[v].n)

\* C11: get_basic_component_value and get_layer_component_value return the
\* stored value when 0 <= index < length (and the element is assigned in that
\* component), and raise a SolutionError otherwise: for an unassigned vector,
\* an index that is negative or >= length, or an unassigned element.
C11_ComponentGettersRaiseSolutionError ==
    domain = "D" =>
        \A i \in IndexInputs :
            /\ LET out == get_basic_component_value(variables, domain, "V", i, "none") IN
               IF Populated(variables, "V", i)
               THEN out = Return(variables, variables["V"].n[i + 1])
               ELSE out.err = "SolutionError"
            /\ \A e \in {"a", "b"} :
                 LET out == get_layer_component_value(variables, domain, "W", i, e,
                                                      "none")
                 IN IF Populated(variables, "W", i)
                       /\ e \in DOMAIN variables["W"].n[i + 1].n
                    THEN out = Return(variables, variables["W"].n[i + 1].n[e])
                    ELSE out.err = "SolutionError"

(***************************************************************************)
(* Properties of the domain resolution                                     *)
(***************************************************************************)
\* The domain a call with domain argument d works against, or "none".
ActiveDomain(d) == IF d # "none" THEN d ELSE domain

SameStore(vs, ws) ==
    DOMAIN vs = DOMAIN ws /\ \A v \in DOMAIN vs : PyEqual(vs[v], ws[v])

\* C13: for two Solutions over the same domain, A == B returns, and returns
\* true exactly when both assign the same variables and each variable's
\* stored values are equal; A != B returns the opposite.
C13_EqualityIsStoreEquality ==
    other.kind = "Solution" =>
        \A keys \in KeyOrders(variables) :
            LET e == __eq__(variables, domain, keys, other)
                n == __ne__(variables, domain, keys, other)
            IN /\ e.err = NoErr /\ n.err = NoErr
               /\ e.ret <=> SameStore(variables, other.variables)
               /\ n.ret <=> ~e.ret

\* C14: between two Solutions, <, <=, > and >= return, and return what the
\* same comparison of the two fitness values gives, whatever variables the
\* two Solutions hold.
C14_OrderingIsFitnessOrdering ==
    other.kind = "Solution" =>
        LET slf == SolutionObject(variables, fitness) IN
        /\ __lt__(slf, other) = Return(variables, fitness < other.fitness)
        /\ __le__(slf, other) = Return(variables, fitness <= other.fitness)
        /\ __gt__(slf, other) = Return(variables, fitness > other.fitness)
        /\ __ge__(slf, other) = Return(variables, fitness >= other.fitness)

\* A <= B has returned for two Solutions of equal fitness, the first holding
\* I and L, the second holding nothing.
C14_Witness ==
    /\ last = [op |-> "__le__", var |-> "", err |-> NoErr]
    /\ other.kind = "Solution" /\ fitness = other.fitness
    /\ DOMAIN variables = {"I", "L"} /\ other.variables = EmptyStore

\* C15: remove_component on an assigned vector returns only when the vector is
\* non-empty, and then leaves the vector without its last component and every
\* other variable as it was; on an assigned empty vector it raises
\* SolutionError and leaves the store unchanged.
C15_RemoveTakesLastOrRejects ==
    \A v \in {"V", "W"} :
        (v \in DOMAIN variables /\ variables[v].kind = "list") =>
            LET x == variables[v].n
                r == remove_component(variables, domain, v, "none")
            IN IF Len(x) = 0
               THEN r.err = "SolutionError" /\ r.variables = variables
               ELSE r.err = NoErr =>
                       r.variables = Put(variables, v, PyList(SubSeq(x, 1, Len(x) - 1)))

\* C16: on an assigned layer-vector, remove_component and delete_component
\* raise and leave the store unchanged whenever the vector would be left
\* with fewer components than the min_size its definition declares.
C16_RemovalKeepsMinSize ==
    ("W" \in DOMAIN variables /\ variables["W"].kind = "list"
        /\ Len(variables["W"].n) - 1 < definitions["W"].min_size) =>
            /\ remove_component(variables, domain, "W", "none").err # NoErr
            /\ remove_component(variables, domain, "W", "none").variables = variables
            /\ \A i \in IndexInputs :
                   /\ delete_component(variables, domain, "W", i, "none").err # NoErr
                   /\ delete_component(variables, domain, "W", i, "none").variables = variables

\* What is left of a vector's max_size once the call has returned.
RemainingAfter(out, v) == definitions[v].max_size - Len(out.variables[v].n)

\* C17: add_basic_component, insert_basic_component, add_layer_component and
\* insert_layer_component, when they return, return the vector's max_size
\* minus its length after the call, whether the call created the vector or
\* extended it.
C17_AddReturnsRemaining ==
    /\ \A x \in ScalarInputs, i \in IndexInputs :
           LET a == add_basic_component(variables, domain, "V", x, "none")
               b == insert_basic_component(variables, domain, "V", i, x, "none")
           IN /\ a.err = NoErr => a.ret = RemainingAfter(a, "V")
              /\ b.err = NoErr => b.ret = RemainingAfter(b, "V")
    /\ \A x \in LayerInputs, i \in IndexInputs :
           LET a == add_layer_component(variables, domain, "W", x, "none")
               b == insert_layer_component(variables, domain, "W", i, x, "none")
           IN /\ a.err = NoErr => a.ret = RemainingAfter(a, "W")
              /\ b.err = NoErr => b.ret = RemainingAfter(b, "W")

\* insert_layer_component has returned after extending W to two components,
\* and V holds a component too.
C17_Witness ==
    /\ last = [op |-> "insert_layer_component", var |-> "W", err |-> NoErr]
    /\ Len(variables["W"].n) = 2
    /\ "V" \in DOMAIN variables /\ Len(variables["V"].n) = 1

\* The declared category of v in the solution's domain.
Category(v) ==
    LET def == definitions[v] IN
    IF def.type \in BASIC_TYPE THEN "scalar"
    ELSE IF def.type = "LAYER" THEN "layer"
    ELSE IF def.components.type = "LAYER" THEN "layer-vector"
    ELSE "scalar-vector"

\* The index/element combinations each category takes: neither for a scalar,
\* the element alone for a layer, the index alone for a scalar-vector, both
\* for a layer-vector.
Consistent(v, i, e) ==
    CASE Category(v) = "scalar" -> ~i.has /\ ~e.has
      [] Category(v) = "layer" -> ~i.has /\ e.has
      [] Category(v) = "scalar-vector" -> i.has /\ ~e.has
      [] Category(v) = "layer-vector" -> i.has /\ e.has

\* C18: with an index/element combination inconsistent with the variable's
\* declared category, set_value raises and leaves the store unchanged, and
\* get_value raises.
C18_InconsistentCombinationRaises ==
    \A v \in DispatchNames, x \in ScalarInputs, i \in IndexOptions, e \in ElementOptions :
        ~Consistent(v, i, e) =>
            LET s == set_value(variables, domain, v, x, i.has, i.n, e.has, e.n, "none")
                g == get_value(variables, domain, v, i.has, i.n, e.has, e.n, "none")
            IN s.err # NoErr /\ s.variables = variables /\ g.err # NoErr

\* The setter and the getter of v's category, called with the same arguments.
CategorySetter(v, x, i, e) ==
    CASE Category(v) = "scalar" -> set_basic(variables, domain, v, x, "none")
      [] Category(v) = "layer" -> set_element(variables, domain, v, e.n, x, "none")
      [] Category(v) = "scalar-vector" -> set_basic_component(variables, domain, v, i.n, x, "none")
      [] Category(v) = "layer-vector" -> set_element_of_layer_component(variables, domain, v, i.n, e.n, x, "none")

CategoryGetter(v, i, e) ==
    CASE Category(v) = "scalar" -> get_basic_value(variables, domain, v, "none")
      [] Category(v) = "layer" -> get_element_value(variables, domain, v, e.n, "none")
      [] Category(v) = "scalar-vector" -> get_basic_component_value(variables, domain, v, i.n, "none")
      [] Category(v) = "layer-vector" -> get_layer_component_value(variables, domain, v, i.n, e.n, "none")

\* C19: with a consistent index/element combination, set_value ends as the
\* setter of the variable's category ends (the same store, the same error or
\* none) and get_value ends as the getter of the category ends, returning
\* the same value.
C19_DispatchEqualsCategoryOperation ==
    \A v \in DispatchNames, x \in ScalarInputs, i \in IndexOptions, e \in ElementOptions :
        Consistent(v, i, e) =>
            /\ set_value(variables, domain, v, x, i.has, i.n, e.has, e.n, "none") = CategorySetter(v, x, i, e)
            /\ get_value(variables, domain, v, i.has, i.n, e.has, e.n, "none") = CategoryGetter(v, i, e)

\* after is problem_definition with name now defined by def and nothing else
\* changed, as the queries report it.
Replaces(after, name, def) ==
    /\ get_variable_definition(after, name) = DomOk(def)
    /\ ProblemDefinition_get_variable_type(after, name) = DomOk(def[1])
    /\ Cardinality(get_variable_list(after).ret) = Cardinality(get_variable_list(problem_definition).ret)
    /\ \A m \in DOMAIN problem_definition \ {name} :
           get_variable_definition(after, m) = get_variable_definition(problem_definition, m)

\* C20: registering a name that is already registered, with a definition of
\* any kind, leaves the queries of that name reporting the new registration
\* only, the other names as they were, and the number of registered names
\* unchanged.
C20_RegistrationReplaces ==
    \A name \in DOMAIN problem_definition :
        /\ \A lo \in Limits, hi \in Limits :
               /\ Replaces(register_integer_variable(problem_definition, name, lo, hi, 1), name, <<"INTEGER", lo, hi, 1>>)
               /\ Replaces(register_real_variable(problem_definition, name, lo, hi, 1), name, <<"REAL", lo, hi, 1>>)
               /\ Replaces(register_vector_variable(problem_definition, name, lo, hi, 1), name, <<"VECTOR", lo, hi, 1, EmptyDict>>)
        /\ \A categories \in CategoryLists :
               Replaces(register_categorical_variable(problem_definition, name, categories), name, <<"CATEGORICAL", categories>>)
        /\ Replaces(register_layer_variable(problem_definition, name), name, <<"LAYER", EmptyDict>>)

\* x and y are registered, y as a vector, and x has just been registered as
\* an integer variable over 0..MaxSize.
C20_Witness ==
    /\ last = [op |-> "register_integer_variable", var |-> "x", err |-> NoErr]
    /\ get_variable_definition(problem_definition, "x") = DomOk(<<"INTEGER", 0, MaxSize, 1>>)
    /\ ProblemDefinition_get_variable_type(problem_definition, "y") = DomOk("VECTOR")

\* C21: once set_layer, set_basic_vector, set_layer_vector, add_layer_component,
\* insert_layer_component or set_layer_component has stored the caller's dict
\* or list, a change the caller makes to that dict or list changes no value
\* of the store.
C21_CallerChangeLeavesStore ==
    [][last'.op = "caller_change" => variables' = variables]_vars

\* The keys of x, a stored dict, are among the element names els declares.
DeclaredKeys(x, els) == x.kind = "dict" => DOMAIN x.n \subseteq DOMAIN els

\* C22: every key of the store is a variable some domain of the Solution's
\* calls declares; every key stored for a layer, and for a component of a
\* layer-vector, is an element that layer declares; the positions of a
\* stored vector are 1..length without a gap.
C22_StoreHoldsDeclaredNamesOnly ==
    \A v \in DOMAIN variables :
        /\ \E d \in domains : v \in DOMAIN DomainDefs(d)
        /\ v \in DOMAIN definitions =>
              LET def == definitions[v] IN
              /\ def.type = "LAYER" => DeclaredKeys(variables[v], def.elements)
              /\ (def.type = "VECTOR" /\ variables[v].kind = "list") =>
                    /\ DOMAIN variables[v].n = 1..Len(variables[v].n)
                    /\ def.components.type = "LAYER" =>
                          \A i \in 1..Len(variables[v].n) :
                              DeclaredKeys(variables[v].n[i], def.components.elements)

\* The operations that put component values into a vector: add, insert, set,
\* and the bulk set of the whole vector.
ComponentOps ==
    {"set_basic_vector", "add_basic_component", "insert_basic_component",
     "set_basic_component", "set_layer_vector", "add_layer_component",
     "insert_layer_component", "set_layer_component",
     "add_element_to_layer_component", "insert_element_to_layer_component",
     "set_element_of_layer_component"}

\* C23: for the vector N, registered with no component type, the domain says
\* its components are not defined, and every add, insert, set and bulk set on
\* N raises and leaves the store as it was.
C23_UndefinedComponentsRejected ==
    [][/\ ~are_defined_components(definitions, "N")
       /\ (last'.op \in ComponentOps /\ last'.var = "N")
            => (last'.err # NoErr /\ variables' = variables)]_vars

\* C24: a Solution just built has an empty store, discovery counter 0 and, for
\* best True, fitness 0, otherwise a fitness no fitness value exceeds;
\* is_available is False of every name then, and turns True of a name only
\* by a setter call on that name that ends without raising.
C24_NewSolutionIsEmpty ==
    [][/\ last'.op = "__init__"
            => /\ variables' = EmptyStore
               /\ discovery_iteration' = 0
               /\ \A v \in DOMAIN definitions : ~is_available(variables', v)
       /\ Construct(TRUE) => fitness' = 0
       /\ Construct(FALSE) => \A f \in 0..MaxFitness : f <= fitness'
       /\ \A v \in DOMAIN definitions :
            (is_available(variables', v) /\ ~is_available(variables, v))
                => (last'.op \in MutationOps /\ last'.var = v /\ last'.err = NoErr)]_vars

\* C25: insert_basic_component(V, index, value) that returns, on V assigned a
\* list of n components, was given 0 <= index <= n and leaves n + 1
\* components: value at index, the components below index where they were,
\* and each component formerly at p >= index now at p + 1.
C25_InsertPlacesAtIndex ==
    \A index \in IndexInputs, value \in ScalarInputs :
        LET out == insert_basic_component(variables, domain, "V", index, value, "none")
            old == variables["V"].n
            new == out.variables["V"].n
        IN (IsList(variables, "V") /\ out.err = NoErr)
            => /\ 0 <= index /\ index <= Len(old)
               /\ Len(new) = Len(old) + 1
               /\ new[index + 1] = value
               /\ \A p \in 1..Len(old) :
                    new[IF p <= index THEN p ELSE p + 1] = old[p]

\* The list s without the component at position index (counted from 0).
Without(s, index) == [p \in 1..(Len(s) - 1) |-> IF p <= index THEN s[p] ELSE s[p + 1]]

\* C26: delete_component(v, index) on v assigned a list of n components returns
\* exactly when 0 <= index < n, and then leaves the other n - 1 components in
\* their order; for any other index it raises SolutionError and leaves the
\* list as it was.
C26_DeleteIffPopulated ==
    \A v \in {"V", "W"}, index \in IndexInputs :
        LET out == delete_component(variables, domain, v, index, "none")
        IN IsList(variables, v)
            => IF 0 <= index /\ index < Len(variables[v].n)
               THEN /\ out.err = NoErr
                    /\ out.variables[v] = PyList(Without(variables[v].n, index))
               ELSE /\ out.err = "SolutionError"
                    /\ out.variables = variables

\* v is declared, in the domain the call works against, as a VECTOR whose
\* components are LAYER.
DeclaredLayerVector(v, d) ==
    /\ ActiveDomain(d) # "none"
    /\ v \in DOMAIN DomainDefs(ActiveDomain(d))
    /\ DomainDefs(ActiveDomain(d))[v].type = "VECTOR"
    /\ DomainDefs(ActiveDomain(d))[v].components.type = "LAYER"

\* C27: is_defined_as_layer_vector_variable(v, ...) returns without raising
\* exactly when the active domain declares v as a VECTOR of LAYER components.
C27_LayerVectorCheckAcceptsLayerVectors ==
    \A v \in DefinedNames, d \in DomainArgs :
        (is_defined_as_layer_vector_variable(v, d, domain) = NoErr)
            <=> DeclaredLayerVector(v, d)

\* C28: a run with at least one candidate ends; it has then made iterations
\* times search_space_size mutate-then-evaluate steps, the fitness of what it
\* returns is the least of the candidates' initial fitness values and of the
\* values the evaluations gave, and what it holds as best is at no time the
\* object of a candidate.
C28_RunReturnsTheMinimum ==
    /\ [](search.pc = "done"
            => /\ search.steps = search.iterations * search.search_space_size
               /\ search.solution.fitness = Min(search.seen))
    /\ [](search.shares = 0)
    /\ [](search.search_space_size >= 1 => <>(search.pc = "done"))

C28_Witness ==
    /\ search.pc = "done"
    /\ search.search_space_size = MaxLen /\ search.iterations = MaxLen
    /\ search.solution.fitness = 0
    /\ \E k \in 1..MaxLen : search.potential_solutions[k].fitness > 0

\* The operations that read.
QueryOps ==
    {"get_basic_value", "get_element_value", "get_basic_component_value",
     "get_layer_component_value", "get_value"}

\* C29: a call on the variable X, whether it returns or raises, leaves the
\* value stored for every other variable, the fitness and the discovery
\* counter as they were; a call that reads leaves the whole Solution as it was.
C29_OtherVariablesUntouched ==
    [][/\ last'.op \in MutationOps
            => /\ \A y \in (DOMAIN variables \cup DOMAIN variables') \ {last'.var} :
                    /\ y \in DOMAIN variables /\ y \in DOMAIN variables'
                    /\ variables'[y] = variables[y]
               /\ fitness' = fitness
               /\ discovery_iteration' = discovery_iteration
       /\ last'.op \in QueryOps
            => /\ variables' = variables
               /\ fitness' = fitness
               /\ discovery_iteration' = discovery_iteration
               /\ domain' = domain]_vars

\* C30: whenever A == B returns true of two Solutions, hash(A) and hash(B)
\* are the same, also when A and B have different fitness values.
C30_EqualSolutionsHashEqual ==
    other.kind = "Solution" =>
        \A keys \in KeyOrders(variables) :
            LET e == __eq__(variables, domain, keys, other)
            IN (e.err = NoErr /\ e.ret = TRUE)
                => __hash__(SolutionObject(variables, fitness)) = __hash__(other)

====
